---- MODULE Spec2Model ----
(***************************************************************************)
(* Model of the hft-demo pipeline: the feed handler (UDP ingestion,        *)
(* enrichment, bounded crossbeam channel, consumer thread) and of          *)
(* hft-types: OrderBookManager, OrderBook, ThresholdStrategy and           *)
(* MeanReversionStrategy. Each component has its own specification over    *)
(* the shared variables.                                                   *)
(*                                                                         *)
(* f64 values are modelled as binary floating-point numbers m * 2^e with a *)
(* Precision-bit significand and round-to-nearest-even after every         *)
(* operation (IEEE 754 arithmetic at reduced precision, with NaN and the    *)
(* two infinities; no subnormals, no exponent range and no signed zero,    *)
(* which the bounded inputs never reach).                                  *)
(* u128 timestamps are modelled as integers modulo 2^TimestampBits.        *)
(***************************************************************************)
EXTENDS Integers, Sequences, FiniteSets, TLC

(***************************************************************************)
(* Bounds of the model.                                                    *)
(***************************************************************************)
Precision == 17         \* significand bits of the modelled f64 (53 in Rust)
TimestampBits == 2      \* width of the modelled u128 timestamps (128 in Rust)
ChannelCapacity == 2    \* slots of the bounded channel (100_000 in main)
MaxPackets == 3         \* datagrams the feed handler receives in a run
MaxTime == 2            \* clock readings and tick timestamps range over 1 .. MaxTime
MaxPrice == 1           \* tick prices range over 0 .. MaxPrice
MaxVolume == 3          \* tick volumes are 0 or MaxVolume
MaxDepth == 6           \* side_depth arguments range over 0 .. MaxDepth
MaxSide == 2            \* levels a caller pushes to one side of its own OrderBook
MaxStrategyPrice == 2   \* strategy tick prices are 0.1 and 1 .. MaxStrategyPrice
MaxTicks == 3           \* ticks a strategy processes in a run
MaxWindow == 3          \* window_size of a MeanReversionStrategy ranges over 0 .. MaxWindow
OrderCapacity == 1      \* slots of the order channel (10_000 in strategy_engine main)
MaxLines == 3           \* lines written to the replay log in a run
MaxDigits == 2          \* significant decimal digits of a recorded price
LogTimestampBits == 24  \* width of the modelled u128 timestamps of a replay log
DurationBits == 3       \* width of the modelled u64 duration_ms (64 in Rust)

(***************************************************************************)
(* f64 arithmetic.                                                         *)
(***************************************************************************)
Abs(n) == IF n < 0 THEN -n ELSE n

Sign(n) == IF n < 0 THEN -1 ELSE IF n > 0 THEN 1 ELSE 0

RECURSIVE BitLen(_)
BitLen(n) == IF n = 0 THEN 0 ELSE 1 + BitLen(n \div 2)

F64Zero == [m |-> 0, e |-> 0]

\* The special values: finite values have m = 0 = e or |m| >= 2^(Precision-1).
F64NaN == [m |-> 0, e |-> 1]

F64Inf == [m |-> 1, e |-> 0]

F64NegInf == [m |-> -1, e |-> 0]

IsNaN(a) == a.m = 0 /\ a.e # 0

IsInf(a) == Abs(a.m) = 1 /\ a.e = 0

\* The float nearest to (n + d) * 2^e, n >= 0, where 0 < d < 1 if sticky and
\* d = 0 otherwise; ties go to the even significand.
F64Round(n, e, sticky) ==
    LET len == BitLen(n) IN
    IF n = 0 THEN F64Zero
    ELSE IF len <= Precision
    THEN [m |-> n * 2^(Precision - len), e |-> e - (Precision - len)]
    ELSE LET k    == len - Precision
             q    == n \div 2^k
             r    == n % 2^k
             half == 2^(k - 1)
             up   == r > half \/ (r = half /\ (sticky \/ q % 2 = 1))
             m1   == IF up THEN q + 1 ELSE q
         IN  IF m1 = 2^Precision
             THEN [m |-> 2^(Precision - 1), e |-> e + k + 1]
             ELSE [m |-> m1, e |-> e + k]

F64Signed(s, x) == [m |-> s * x.m, e |-> x.e]

\* `n as f64` for an integer n.
F64FromInt(n) == F64Signed(Sign(n), F64Round(Abs(n), 0, FALSE))

F64Neg(a) == [m |-> -a.m, e |-> a.e]

\* a * b: the significand product is formed in two halves so that no
\* intermediate exceeds 32-bit integers.
F64Mul(a, b) ==
    IF IsNaN(a) \/ IsNaN(b) THEN F64NaN
    ELSE IF IsInf(a) \/ IsInf(b)
    THEN (IF a.m = 0 \/ b.m = 0 THEN F64NaN
          ELSE IF Sign(a.m) = Sign(b.m) THEN F64Inf ELSE F64NegInf)
    ELSE IF a.m = 0 \/ b.m = 0 THEN F64Zero
    ELSE LET x    == Abs(a.m)
             y    == Abs(b.m)
             base == 2^10
             hi   == x * (y \div base)
             lo   == x * (y % base)
             t    == hi + (lo \div base)
             r    == lo % base
         IN  F64Signed(Sign(a.m) * Sign(b.m), F64Round(t, a.e + b.e + 10, r # 0))

RECURSIVE F64DivBits(_, _, _, _)
F64DivBits(rem, y, q, k) ==
    IF k = 0 THEN <<q, rem>>
    ELSE LET r2 == 2 * rem
         IN  IF r2 >= y THEN F64DivBits(r2 - y, y, 2 * q + 1, k - 1)
                        ELSE F64DivBits(r2, y, 2 * q, k - 1)

\* a / b, by long division to Precision + 2 quotient bits; x / 0.0 is NaN
\* for x = 0 and an infinity of the sign of x otherwise.
F64Div(a, b) ==
    IF IsNaN(a) \/ IsNaN(b) THEN F64NaN
    ELSE IF IsInf(a)
    THEN (IF IsInf(b) THEN F64NaN
          ELSE IF (a.m > 0) = (b.m >= 0) THEN F64Inf ELSE F64NegInf)
    ELSE IF IsInf(b) THEN F64Zero
    ELSE IF b.m = 0
    THEN (IF a.m = 0 THEN F64NaN ELSE IF a.m > 0 THEN F64Inf ELSE F64NegInf)
    ELSE IF a.m = 0 THEN F64Zero
    ELSE LET x  == Abs(a.m)
             y  == Abs(b.m)
             qr == F64DivBits(x % y, y, x \div y, Precision + 2)
         IN  F64Signed(Sign(a.m) * Sign(b.m),
                       F64Round(qr[1], a.e - b.e - (Precision + 2), qr[2] # 0))

\* a + b, with three guard bits and a sticky bit for the smaller operand.
F64Add(a, b) ==
    IF IsNaN(a) \/ IsNaN(b) THEN F64NaN
    ELSE IF IsInf(a) THEN (IF IsInf(b) /\ a # b THEN F64NaN ELSE a)
    ELSE IF IsInf(b) THEN b
    ELSE IF a.m = 0 THEN b
    ELSE IF b.m = 0 THEN a
    ELSE LET big   == IF a.e >= b.e THEN a ELSE b
             small == IF a.e >= b.e THEN b ELSE a
             d     == big.e - small.e
             A     == Abs(big.m) * 8
             same  == Sign(big.m) = Sign(small.m)
         IN  IF d <= 3
             THEN LET S == big.m * 8 + small.m * 2^(3 - d)
                  IN  F64Signed(Sign(S), F64Round(Abs(S), big.e - 3, FALSE))
             ELSE LET k      == d - 3
                      B      == IF k > Precision THEN 0 ELSE Abs(small.m) \div 2^k
                      sticky == IF k > Precision THEN TRUE ELSE Abs(small.m) % 2^k # 0
                      n      == IF same THEN A + B
                                ELSE IF sticky THEN A - B - 1 ELSE A - B
                  IN  F64Signed(Sign(big.m), F64Round(n, big.e - 3, sticky))

F64Sub(a, b) == F64Add(a, F64Neg(b))

\* a < b (false when either is NaN)
F64Lt(a, b) ==
    IF IsNaN(a) \/ IsNaN(b) THEN FALSE
    ELSE IF IsInf(a) THEN a.m < 0 /\ b # a
    ELSE IF IsInf(b) THEN b.m > 0
    ELSE IF a.m <= 0 /\ b.m >= 0 THEN a.m < b.m
    ELSE IF a.m >= 0 /\ b.m <= 0 THEN FALSE
    ELSE IF a.m > 0 THEN a.e < b.e \/ (a.e = b.e /\ a.m < b.m)
    ELSE a.e > b.e \/ (a.e = b.e /\ a.m < b.m)

F64Le(a, b) == ~IsNaN(a) /\ (a = b \/ F64Lt(a, b))

\* f64::abs
F64Abs(a) == [m |-> Abs(a.m), e |-> a.e]

\* The integer square root of n >= 0.
RECURSIVE ISqrt(_)
ISqrt(n) ==
    IF n < 2 THEN n
    ELSE LET r == 2 * ISqrt(n \div 4)
         IN  IF (r + 1) * (r + 1) <= n THEN r + 1 ELSE r

\* k more bits of a square root, digit by digit: <<root, remainder>>.
RECURSIVE F64SqrtBits(_, _, _)
F64SqrtBits(root, rem, k) ==
    IF k = 0 THEN <<root, rem>>
    ELSE LET r4    == 4 * rem
             trial == 4 * root + 1
         IN  IF r4 >= trial THEN F64SqrtBits(2 * root + 1, r4 - trial, k - 1)
                            ELSE F64SqrtBits(2 * root, r4, k - 1)

\* f64::sqrt, correctly rounded; NaN for a negative argument.
F64Sqrt(a) ==
    IF IsNaN(a) \/ a.m < 0 THEN F64NaN
    ELSE IF IsInf(a) \/ a.m = 0 THEN a
    ELSE LET odd == a.e % 2 = 1
             n   == IF odd THEN 2 * a.m ELSE a.m
             e2  == IF odd THEN a.e - 1 ELSE a.e
             r0  == ISqrt(n)
             k   == Precision + 2 - BitLen(r0)
             rr  == F64SqrtBits(r0, n - r0 * r0, k)
         IN  F64Round(rr[1], (e2 \div 2) - k, rr[2] # 0)

\* The f64 literal num/den (for example 0.0001 is F64Lit(1, 10000)).
F64Lit(num, den) == F64Div(F64FromInt(num), F64FromInt(den))

(***************************************************************************)
(* State.                                                                  *)
(***************************************************************************)
VARIABLES
    overflow_checks,    \* feed_handler build profile: TRUE = debug (checked arithmetic)
    handler_pc,         \* FeedHandler::run: "recv", "returned" (Err), "panicked"
    consumer_pc,        \* strategy_consumer thread: "iter", "done", "killed"
    process_alive,      \* the feed_handler process has not exited
    chan,               \* items buffered in the bounded channel (strategy_tx -> rx)
    counters,           \* IntCounters of REGISTRY, by metric name
    latency_histogram,  \* samples observed by LATENCY_HISTOGRAM
    packets,            \* history: datagrams returned by recv_from, in order
    offers,             \* history: EnrichedTicks created, with their try_send result
    delivered,          \* history: items yielded by rx.iter() to strategy_consumer
    books,              \* OrderBookManager.books: symbol -> OrderBook
    vwap_call,          \* <<>> or <<[symbol, side_depth, result]>>: the last calculate_vwap
    read_call,          \* <<>> or <<[op, symbol, num_levels, result]>>: the last other read
    last_tick,          \* history: symbol -> the latest tick passed to update_from_tick
    prices_seen,        \* history: prices of all ticks passed to update_from_tick
    order_book,         \* an OrderBook owned by a caller (outside any manager)
    order_book_call,    \* <<>> or <<[op, result]>>: the last read of order_book
    threshold_strategy, \* a ThresholdStrategy: [thresholds, order_size]
    threshold_new,      \* history: threshold_strategy as ThresholdStrategy::new built it
    threshold_call,     \* <<>> or <<[tick, now, result]>>: its last process_tick
    threshold_seen,     \* history: number of ticks it has processed
    mr_strategy,        \* a MeanReversionStrategy: [window_size, std_dev_threshold,
                        \*   order_size, price_history]
    mr_call,            \* <<>> or <<[tick, now, result]>>: its last process_tick
    mr_seen,            \* history: symbol -> prices of all its ticks processed, in order
    mm_strategy,        \* a MarketMakingStrategy: [spread_bps, order_size, last_prices]
    mm_call,            \* <<>> or <<[tick, now, result]>>: its last process_tick
    mm_latest,          \* history: symbol -> price of its latest tick processed
    mm_seen,            \* history: number of ticks it has processed
    engine_tick_chan,   \* strategy_engine: EnrichedTicks buffered in tick_tx -> tick_rx
    engine_order_chan,  \* strategy_engine: Orders buffered in order_tx -> order_rx
    engine_current,     \* <<>> or <<enriched>>: the item SimpleStrategy::run has dequeued
    engine_counters,    \* strategy_engine IntCounters of REGISTRY, by metric name
    engine_generated,   \* history: EnrichedTicks sent on tick_tx, in order
    engine_dequeued,    \* history: items yielded by tick_rx.iter(), in order
    engine_processed,   \* history: items process_tick has returned for, in order
    engine_offers,      \* history: Orders built, with trigger and try_send result
    engine_consumed,    \* history: Orders yielded by order_rx.iter(), in order
    log_file,           \* the replay log at the path: exists, its complete lines, an unterminated tail
    recorder,           \* <<>> or <<MarketRecorder>>: the open recorder of the path
    replayer,           \* <<>> or <<MarketReplayer>>: pos counts the lines its reader consumed
    replay_call,        \* <<>> or the last operation on the path with its result
    recorded,           \* history: ticks record_tick returned Ok for, since the recorder was created
    replayed,           \* history: ticks next_tick returned since the replayer was created
    log_written,        \* history: every line completed in the file, in order, over all sessions
    frame,              \* <<>> or <<MessageFrame>>: the frame a caller holds
    frame_call,         \* <<>> or the last MessageFrame call with its argument and result
    thread_pc,          \* thread -> where it stands ("-" before it is spawned)
    held,               \* object -> the threads that hold a handle to it
    accessed            \* history: object -> the threads that have read or mutated it

feed_vars == <<overflow_checks, handler_pc, consumer_pc, process_alive, chan,
               counters, latency_histogram, packets, offers, delivered>>

book_vars == <<books, vwap_call, read_call, last_tick, prices_seen>>

order_book_vars == <<order_book, order_book_call>>

threshold_vars == <<threshold_strategy, threshold_new, threshold_call, threshold_seen>>

mr_vars == <<mr_strategy, mr_call, mr_seen>>

mm_vars == <<mm_strategy, mm_call, mm_latest, mm_seen>>

engine_vars == <<engine_tick_chan, engine_order_chan, engine_current, engine_counters, engine_generated, engine_dequeued, engine_processed, engine_offers, engine_consumed>>

replay_vars == <<log_file, recorder, replayer, replay_call, recorded, replayed, log_written>>

frame_vars == <<frame, frame_call>>

thread_vars == <<thread_pc, held, accessed>>

vars == <<feed_vars, book_vars, order_book_vars, threshold_vars, mr_vars,
           mm_vars, engine_vars, replay_vars, frame_vars, thread_vars>>

\* The state outside the feed handler, outside the OrderBookManager, outside
\* the caller-owned OrderBook, outside the ThresholdStrategy, and outside the
\* MeanReversionStrategy.
not_feed_vars == <<book_vars, order_book_vars, threshold_vars, mr_vars,
                   mm_vars, engine_vars, replay_vars, frame_vars, thread_vars>>

not_book_vars == <<feed_vars, order_book_vars, threshold_vars, mr_vars,
                   mm_vars, engine_vars, replay_vars, frame_vars, thread_vars>>

not_order_book_vars == <<feed_vars, book_vars, threshold_vars, mr_vars,
                         mm_vars, engine_vars, replay_vars, frame_vars,
                         thread_vars>>

not_threshold_vars == <<feed_vars, book_vars, order_book_vars, mr_vars,
                        mm_vars, engine_vars, replay_vars, frame_vars,
                        thread_vars>>

not_mr_vars == <<feed_vars, book_vars, order_book_vars, threshold_vars,
                 mm_vars, engine_vars, replay_vars, frame_vars, thread_vars>>

\* The state outside the MarketMakingStrategy.
not_mm_vars == <<feed_vars, book_vars, order_book_vars, threshold_vars,
                 mr_vars, engine_vars, replay_vars, frame_vars, thread_vars>>

\* The state outside the strategy engine.
not_engine_vars == <<feed_vars, book_vars, order_book_vars, threshold_vars,
                     mr_vars, mm_vars, replay_vars, frame_vars, thread_vars>>

\* The state outside the record/replay store.
not_replay_vars == <<feed_vars, book_vars, order_book_vars, threshold_vars,
                     mr_vars, mm_vars, engine_vars, frame_vars, thread_vars>>

\* The state outside the message framing.
not_frame_vars == <<feed_vars, book_vars, order_book_vars, threshold_vars,
                    mr_vars, mm_vars, engine_vars, replay_vars, thread_vars>>

\* The state outside the thread structure of the two processes.
not_thread_vars == <<feed_vars, book_vars, order_book_vars, threshold_vars,
                     mr_vars, mm_vars, engine_vars, replay_vars, frame_vars>>

(***************************************************************************)
(* Inputs.                                                                 *)
(***************************************************************************)
Symbols == {"BTC/USD", "ETH/USD"}

Times == 1..MaxTime

Prices == {F64FromInt(p) : p \in 0..MaxPrice}

Volumes == {0, MaxVolume}

\* MarketTick
MarketTick == [symbol : Symbols, price : Prices, volume : Volumes,
               timestamp_nanos : Times]

\* A datagram is <<tick>> if serde_json::from_slice::<MarketTick> accepts it
\* and yields tick, and <<>> if the parse fails.
Malformed == <<>>

WellFormed(tick) == <<tick>>

Depths == 0..MaxDepth

\* Prices of the ticks given to a strategy, and of its bands.
StrategyPrices == {F64Lit(1, 10)} \cup {F64FromInt(p) : p \in 1..MaxStrategyPrice}

\* The ticks given to a strategy (`&enriched.tick`): only symbol and price are read.
StrategyTicks == [symbol : Symbols, price : StrategyPrices, volume : {MaxVolume},
                  timestamp_nanos : {1}]

OrderSizes == {F64FromInt(1), F64FromInt(2)}

\* Datagrams of the feed: the handler never inspects symbol, price or volume.
FeedTicks == {t \in MarketTick : t.symbol = "BTC/USD" /\ t.price = F64FromInt(MaxPrice)
                                 /\ t.volume = MaxVolume}

(***************************************************************************)
(* feed_handler: enrichment and the bounded channel.                       *)
(***************************************************************************)
\* u128 `a - b` without overflow checks: wraps modulo 2^width.
wrapping_sub(a, b) == (a - b) % 2^TimestampBits

\* `a - b` on u128 overflows exactly when b > a.
sub_overflows(a, b) == b > a

\* latency_nanos as f64 / 1000.0
latency_micros(receive_time_nanos, tick) ==
    F64Div(F64FromInt(wrapping_sub(receive_time_nanos, tick.timestamp_nanos)),
           F64FromInt(1000))

\* EnrichedTick { tick, receive_time_nanos, latency_micros }; pkt is the
\* position of the datagram in packets (history only).
EnrichedTick(tick, receive_time_nanos, pkt) ==
    [tick |-> tick, receive_time_nanos |-> receive_time_nanos,
     latency_micros |-> latency_micros(receive_time_nanos, tick), pkt |-> pkt]

\* A try_send variant that makes room by evicting the oldest item.
try_send_evict_oldest(q, item, capacity, rx_alive) ==
    IF ~rx_alive THEN [result |-> "Disconnected", chan |-> q]
    ELSE IF Len(q) >= capacity THEN [result |-> "Ok", chan |-> Append(Tail(q), item)]
    ELSE [result |-> "Ok", chan |-> Append(q, item)]

\* crossbeam Sender::try_send on a bounded channel.
try_send(q, item, capacity, rx_alive) ==
    IF ~rx_alive THEN [result |-> "Disconnected", chan |-> q]
    ELSE IF Len(q) >= capacity THEN [result |-> "Full", chan |-> q]
    ELSE [result |-> "Ok", chan |-> Append(q, item)]

\* The Err(e) arm of the parse in FeedHandler::run: warn and continue.
handler_parse_error ==
    /\ handler_pc = "recv"
    /\ Len(packets) < MaxPackets
    /\ packets' = Append(packets, Malformed)
    /\ UNCHANGED <<overflow_checks, handler_pc, consumer_pc, process_alive, chan,
                   counters, latency_histogram, offers, delivered>>
    /\ UNCHANGED not_feed_vars

\* The Ok(tick) arm when `receive_time_nanos - tick.timestamp_nanos` overflows
\* in a build with overflow checks: the main task panics.
handler_panic ==
    /\ handler_pc = "recv"
    /\ Len(packets) < MaxPackets
    /\ overflow_checks
    /\ \E tick \in FeedTicks, now \in Times :
          /\ sub_overflows(now, tick.timestamp_nanos)
          /\ packets' = Append(packets, WellFormed(tick))
    /\ handler_pc' = "panicked"
    /\ UNCHANGED <<overflow_checks, consumer_pc, process_alive, chan, counters,
                   latency_histogram, offers, delivered>>
    /\ UNCHANGED not_feed_vars

\* The Ok(tick) arm: enrich, update the metrics, try_send, continue.
handler_forward ==
    /\ handler_pc = "recv"
    /\ Len(packets) < MaxPackets
    /\ \E tick \in FeedTicks, now \in Times :
          /\ ~(overflow_checks /\ sub_overflows(now, tick.timestamp_nanos))
          /\ LET enriched == EnrichedTick(tick, now, Len(packets) + 1)
                 sent     == try_send(chan, enriched, ChannelCapacity,
                                      consumer_pc = "iter")
             IN  /\ packets' = Append(packets, WellFormed(tick))
                 /\ counters' = [counters EXCEPT !["feed_ticks_received_total"] = @ + 1]
                 /\ latency_histogram' = Append(latency_histogram, enriched.latency_micros)
                 /\ chan' = sent.chan
                 /\ offers' = Append(offers, [enriched |-> enriched,
                                              result |-> sent.result])
    /\ UNCHANGED <<overflow_checks, handler_pc, consumer_pc, process_alive, delivered>>
    /\ UNCHANGED not_feed_vars

\* recv_from fails: `?` returns the error from run and from main, dropping
\* the handler and with it the only Sender.
handler_recv_error ==
    /\ handler_pc = "recv"
    /\ handler_pc' = "returned"
    /\ UNCHANGED <<overflow_checks, consumer_pc, process_alive, chan, counters,
                   latency_histogram, packets, offers, delivered>>
    /\ UNCHANGED not_feed_vars

\* main has returned or panicked: the process exits; the consumer thread is
\* detached (never joined) and ends with the process.
process_exit ==
    /\ handler_pc # "recv"
    /\ process_alive
    /\ process_alive' = FALSE
    /\ consumer_pc' = IF consumer_pc = "iter" THEN "killed" ELSE consumer_pc
    /\ UNCHANGED <<overflow_checks, handler_pc, chan, counters, latency_histogram,
                   packets, offers, delivered>>
    /\ UNCHANGED not_feed_vars

\* strategy_consumer: rx.iter() yields the oldest buffered item.
consumer_next ==
    /\ consumer_pc = "iter"
    /\ chan # <<>>
    /\ delivered' = Append(delivered, Head(chan))
    /\ chan' = Tail(chan)
    /\ UNCHANGED <<overflow_checks, handler_pc, consumer_pc, process_alive, counters,
                   latency_histogram, packets, offers>>
    /\ UNCHANGED not_feed_vars

\* strategy_consumer: rx.iter() ends when the channel is empty and every
\* Sender is dropped; the function returns.
consumer_exit ==
    /\ consumer_pc = "iter"
    /\ chan = <<>>
    /\ handler_pc # "recv"
    /\ consumer_pc' = "done"
    /\ UNCHANGED <<overflow_checks, handler_pc, process_alive, chan, counters,
                   latency_histogram, packets, offers, delivered>>
    /\ UNCHANGED not_feed_vars

(***************************************************************************)
(* hft-types: OrderBook and OrderBookManager.                              *)
(***************************************************************************)
NumLevels == 5

spread_bps == 10

\* OrderBook::new
OrderBook_new(symbol, timestamp_nanos) ==
    [symbol |-> symbol, bids |-> <<>>, asks |-> <<>>,
     timestamp_nanos |-> timestamp_nanos]

\* let spread = tick.price * (spread_bps / 10000.0)
spread(tick) == F64Mul(tick.price, F64Div(F64FromInt(spread_bps), F64FromInt(10000)))

\* i as f64 * tick.price * 0.0001
level_offset(tick, i) == F64Mul(F64Mul(F64FromInt(i), tick.price), F64Lit(1, 10000))

\* A bid price that leaves out the per-level offset.
bid_price_flat(tick, i) == F64Sub(tick.price, F64Div(spread(tick), F64FromInt(2)))

\* tick.price - spread / 2.0 - (i as f64 * tick.price * 0.0001)
bid_price(tick, i) ==
    F64Sub(F64Sub(tick.price, F64Div(spread(tick), F64FromInt(2))), level_offset(tick, i))

\* tick.price + spread / 2.0 + (i as f64 * tick.price * 0.0001)
ask_price(tick, i) ==
    F64Add(F64Add(tick.price, F64Div(spread(tick), F64FromInt(2))), level_offset(tick, i))

\* tick.volume as f64 / (i + 1) as f64
level_quantity(tick, i) == F64Div(F64FromInt(tick.volume), F64FromInt(i + 1))

\* The levels pushed by `for i in 0..5`.
pushed_levels(tick) ==
    [bids |-> [k \in 1..NumLevels |-> [price |-> bid_price(tick, k - 1),
                                       quantity |-> level_quantity(tick, k - 1)]],
     asks |-> [k \in 1..NumLevels |-> [price |-> ask_price(tick, k - 1),
                                       quantity |-> level_quantity(tick, k - 1)]]]

\* pushed_levels tabulated over the tick inputs it depends on (evaluated once).
pushed_levels_table ==
    [p \in Prices |-> [v \in Volumes |-> pushed_levels([price |-> p, volume |-> v])]]

pushed_bids(tick) == pushed_levels_table[tick.price][tick.volume].bids

pushed_asks(tick) == pushed_levels_table[tick.price][tick.volume].asks

\* An update that pushes the new levels without clearing the old ones.
update_from_tick_no_clear(bks, tick) ==
    LET book == IF tick.symbol \in DOMAIN bks THEN bks[tick.symbol]
                ELSE OrderBook_new(tick.symbol, tick.timestamp_nanos)
        updated == [book EXCEPT !.timestamp_nanos = tick.timestamp_nanos,
                                !.bids = book.bids \o pushed_bids(tick),
                                !.asks = book.asks \o pushed_asks(tick)]
    IN  [s \in DOMAIN bks \cup {tick.symbol} |->
            IF s = tick.symbol THEN updated ELSE bks[s]]

\* An update that stamps the tick's timestamp on every book.
update_from_tick_stamp_all(bks, tick) ==
    LET book == IF tick.symbol \in DOMAIN bks THEN bks[tick.symbol]
                ELSE OrderBook_new(tick.symbol, tick.timestamp_nanos)
        updated == [book EXCEPT !.timestamp_nanos = tick.timestamp_nanos,
                                !.bids = <<>> \o pushed_bids(tick),
                                !.asks = <<>> \o pushed_asks(tick)]
    IN  [s \in DOMAIN bks \cup {tick.symbol} |->
            IF s = tick.symbol THEN updated
            ELSE [bks[s] EXCEPT !.timestamp_nanos = tick.timestamp_nanos]]

\* An update that keeps only the book of the tick's symbol.
update_from_tick_single_book(bks, tick) ==
    [s \in {tick.symbol} |->
        [symbol |-> tick.symbol, bids |-> pushed_bids(tick), asks |-> pushed_asks(tick),
         timestamp_nanos |-> tick.timestamp_nanos]]

\* OrderBookManager::update_from_tick: entry().or_insert_with(), set the
\* timestamp, clear both sides, push NumLevels levels per side.
update_from_tick(bks, tick) ==
    LET book == IF tick.symbol \in DOMAIN bks THEN bks[tick.symbol]
                ELSE OrderBook_new(tick.symbol, tick.timestamp_nanos)
        updated == [book EXCEPT !.timestamp_nanos = tick.timestamp_nanos,
                                !.bids = <<>> \o pushed_bids(tick),
                                !.asks = <<>> \o pushed_asks(tick)]
    IN  [s \in DOMAIN bks \cup {tick.symbol} |->
            IF s = tick.symbol THEN updated ELSE bks[s]]

\* iter().sum() of f64: a left fold of + from 0.0.
RECURSIVE F64Sum(_)
F64Sum(xs) ==
    IF xs = <<>> THEN F64Zero
    ELSE F64Add(F64Sum(SubSeq(xs, 1, Len(xs) - 1)), xs[Len(xs)])

Min(a, b) == IF a < b THEN a ELSE b

\* A vwap_levels that reads side_depth 0 as "no levels".
vwap_levels_zero_is_none(book, side_depth) ==
    SubSeq(book.bids, 1, Min(side_depth, Len(book.bids)))

\* The bid levels calculate_vwap sums: &book.bids[..side_depth.min(len)] or all.
vwap_levels(book, side_depth) ==
    IF side_depth > 0 THEN SubSeq(book.bids, 1, Min(side_depth, Len(book.bids)))
    ELSE book.bids

\* The closure of calculate_vwap: total_value / total_quantity over the
\* included levels, 0.0 unless total_quantity > 0.0.
vwap_of_book(book, side_depth) ==
    LET levels == vwap_levels(book, side_depth)
        total_value == F64Sum([k \in DOMAIN levels |->
                                  F64Mul(levels[k].price, levels[k].quantity)])
        total_quantity == F64Sum([k \in DOMAIN levels |-> levels[k].quantity])
    IN  IF F64Lt(F64Zero, total_quantity)
        THEN F64Div(total_value, total_quantity)
        ELSE F64Zero

\* vwap_of_book tabulated over the bid sides update_from_tick builds
\* (evaluated once).
vwap_table ==
    [bids \in {pushed_levels_table[p][v].bids : p \in Prices, v \in Volumes} |->
        [side_depth \in Depths |-> vwap_of_book([bids |-> bids], side_depth)]]

\* OrderBookManager::calculate_vwap: <<>> is None, <<v>> is Some(v).
calculate_vwap(bks, symbol, side_depth) ==
    IF symbol \notin DOMAIN bks THEN <<>>
    ELSE IF bks[symbol].bids \in DOMAIN vwap_table /\ side_depth \in Depths
    THEN <<vwap_table[bks[symbol].bids][side_depth]>>
    ELSE <<vwap_of_book(bks[symbol], side_depth)>>

\* OrderBook::best_bid: self.bids.first(); <<>> is None, <<level>> is Some.
OrderBook_best_bid(book) == IF book.bids = <<>> THEN <<>> ELSE <<book.bids[1]>>

\* OrderBook::best_ask: self.asks.first()
OrderBook_best_ask(book) == IF book.asks = <<>> THEN <<>> ELSE <<book.asks[1]>>

\* OrderBookManager::get_book: self.books.get(symbol)
get_book(bks, symbol) == IF symbol \in DOMAIN bks THEN <<bks[symbol]>> ELSE <<>>

\* OrderBookManager::get_all_books: &self.books
get_all_books(bks) == bks

\* OrderBookManager::get_bbo: Some((bid.price, ask.price)) when the symbol has
\* a book with a best bid and a best ask.
get_bbo(bks, symbol) ==
    IF symbol \notin DOMAIN bks THEN <<>>
    ELSE LET bid == OrderBook_best_bid(bks[symbol])
             ask == OrderBook_best_ask(bks[symbol])
         IN  IF bid = <<>> \/ ask = <<>> THEN <<>>
             ELSE <<[bid |-> bid[1].price, ask |-> ask[1].price]>>

\* A crossing test that is strict.
is_crossed_strict(bks, symbol) ==
    LET bbo == get_bbo(bks, symbol)
    IN  IF bbo # <<>> THEN F64Lt(bbo[1].ask, bbo[1].bid) ELSE FALSE

\* OrderBookManager::is_crossed: bid >= ask on the BBO, false without one.
is_crossed(bks, symbol) ==
    LET bbo == get_bbo(bks, symbol)
    IN  IF bbo # <<>> THEN F64Le(bbo[1].ask, bbo[1].bid) ELSE FALSE

\* iter().take(num_levels).cloned().collect()
take(levels, num_levels) == SubSeq(levels, 1, Min(num_levels, Len(levels)))

\* A depth query that returns the last levels of each side.
get_depth_from_back(bks, symbol, num_levels) ==
    IF symbol \notin DOMAIN bks THEN <<>>
    ELSE LET bids == bks[symbol].bids
             asks == bks[symbol].asks
         IN  <<[bids |-> SubSeq(bids, Len(bids) - Min(num_levels, Len(bids)) + 1, Len(bids)),
                asks |-> SubSeq(asks, Len(asks) - Min(num_levels, Len(asks)) + 1, Len(asks))]>>

\* OrderBookManager::get_depth: Some((bids, asks)) of the first num_levels
\* levels per side.
get_depth(bks, symbol, num_levels) ==
    IF symbol \notin DOMAIN bks THEN <<>>
    ELSE <<[bids |-> take(bks[symbol].bids, num_levels),
            asks |-> take(bks[symbol].asks, num_levels)]>>

\* A read that inserts an empty book for a symbol it does not find.
read_receiver_or_insert(bks, symbol) ==
    [s \in DOMAIN bks \cup {symbol} |->
        IF s \in DOMAIN bks THEN bks[s] ELSE OrderBook_new(symbol, 0)]

\* The manager after a method that takes `&self`: the receiver as it was.
read_receiver(bks, symbol) == bks

\* A caller applies update_from_tick.
book_update ==
    /\ \E tick \in MarketTick :
          /\ books' = update_from_tick(books, tick)
          /\ last_tick' = [s \in DOMAIN last_tick \cup {tick.symbol} |->
                              IF s = tick.symbol THEN tick ELSE last_tick[s]]
          /\ prices_seen' = prices_seen \cup {tick.price}
    /\ vwap_call' = <<>>
    /\ read_call' = <<>>
    /\ UNCHANGED not_book_vars

\* A caller applies calculate_vwap.
book_calculate_vwap ==
    /\ \E symbol \in Symbols, side_depth \in Depths :
          /\ vwap_call' = <<[symbol |-> symbol, side_depth |-> side_depth,
                             result |-> calculate_vwap(books, symbol, side_depth)]>>
          /\ books' = read_receiver(books, symbol)
    /\ read_call' = <<>>
    /\ UNCHANGED <<last_tick, prices_seen>>
    /\ UNCHANGED not_book_vars

\* The record of a read other than calculate_vwap.
ReadCall(op, symbol, num_levels, result) ==
    <<[op |-> op, symbol |-> symbol, num_levels |-> num_levels, result |-> result]>>

\* A caller applies get_book.
book_get_book ==
    /\ \E symbol \in Symbols :
          /\ read_call' = ReadCall("get_book", symbol, 0, get_book(books, symbol))
          /\ books' = read_receiver(books, symbol)
    /\ vwap_call' = <<>>
    /\ UNCHANGED <<last_tick, prices_seen>>
    /\ UNCHANGED not_book_vars

\* A caller applies get_all_books.
book_get_all_books ==
    /\ read_call' = ReadCall("get_all_books", "", 0, get_all_books(books))
    /\ books' = read_receiver(books, "")
    /\ vwap_call' = <<>>
    /\ UNCHANGED <<last_tick, prices_seen>>
    /\ UNCHANGED not_book_vars

\* A caller applies get_bbo.
book_get_bbo ==
    /\ \E symbol \in Symbols :
          /\ read_call' = ReadCall("get_bbo", symbol, 0, get_bbo(books, symbol))
          /\ books' = read_receiver(books, symbol)
    /\ vwap_call' = <<>>
    /\ UNCHANGED <<last_tick, prices_seen>>
    /\ UNCHANGED not_book_vars

\* A caller applies is_crossed.
book_is_crossed ==
    /\ \E symbol \in Symbols :
          /\ read_call' = ReadCall("is_crossed", symbol, 0, is_crossed(books, symbol))
          /\ books' = read_receiver(books, symbol)
    /\ vwap_call' = <<>>
    /\ UNCHANGED <<last_tick, prices_seen>>
    /\ UNCHANGED not_book_vars

\* A caller applies get_depth.
book_get_depth ==
    /\ \E symbol \in Symbols, num_levels \in Depths :
          /\ read_call' = ReadCall("get_depth", symbol, num_levels,
                                   get_depth(books, symbol, num_levels))
          /\ books' = read_receiver(books, symbol)
    /\ vwap_call' = <<>>
    /\ UNCHANGED <<last_tick, prices_seen>>
    /\ UNCHANGED not_book_vars

\* A MarketMakingStrategy with a fixed configuration, before any tick.
MarketMakingVarsInit ==
    /\ mm_strategy = [spread_bps |-> F64FromInt(10), order_size |-> F64FromInt(1),
                      last_prices |-> <<>>]
    /\ mm_call = <<>>
    /\ mm_latest = <<>>
    /\ mm_seen = 0

\* The strategy engine after main has created both channels and the strategy.
EngineVarsInit ==
    /\ engine_tick_chan = <<>>
    /\ engine_order_chan = <<>>
    /\ engine_current = <<>>
    /\ engine_counters = [c \in {"strategy_signals_generated_total",
                                  "strategy_orders_sent_total"} |-> 0]
    /\ engine_generated = <<>>
    /\ engine_dequeued = <<>>
    /\ engine_processed = <<>>
    /\ engine_offers = <<>>
    /\ engine_consumed = <<>>

\* No log file, no recorder and no replayer yet.
ReplayVarsInit ==
    /\ log_file = [exists |-> FALSE, lines |-> <<>>, tail |-> FALSE]
    /\ recorder = <<>>
    /\ replayer = <<>>
    /\ replay_call = <<>>
    /\ recorded = <<>>
    /\ replayed = <<>>
    /\ log_written = <<>>

\* No MessageFrame has been constructed yet.
FrameVarsInit ==
    /\ frame = <<>>
    /\ frame_call = <<>>

\* Both processes at the start of main: only the main threads exist.
ThreadVarsInit ==
    /\ thread_pc = [t \in {"fh.main", "fh.consumer", "se.main", "se.generator",
                           "se.order_consumer"} |->
                      IF t \in {"fh.main", "se.main"} THEN "init_metrics" ELSE "-"]
    /\ held = [o \in {"fh.REGISTRY", "fh.TICKS_RECEIVED", "fh.LATENCY_HISTOGRAM",
                       "fh.channel", "fh.handler", "se.REGISTRY",
                       "se.SIGNALS_GENERATED", "se.ORDERS_SENT", "se.tick_channel",
                       "se.order_channel", "se.strategy", "se.counter"} |-> {}]
    /\ accessed = [o \in {"fh.REGISTRY", "fh.TICKS_RECEIVED", "fh.LATENCY_HISTOGRAM",
                           "fh.channel", "fh.handler", "se.REGISTRY",
                           "se.SIGNALS_GENERATED", "se.ORDERS_SENT", "se.tick_channel",
                           "se.order_channel", "se.strategy", "se.counter"} |-> {}]

\* A MeanReversionStrategy with a fixed configuration, before any tick.
MeanReversionVarsInit ==
    /\ mr_strategy = [window_size |-> 0, std_dev_threshold |-> F64FromInt(2),
                      order_size |-> F64FromInt(1), price_history |-> <<>>]
    /\ mr_call = <<>>
    /\ mr_seen = [s \in Symbols |-> <<>>]

\* A ThresholdStrategy with a fixed configuration, before any tick.
ThresholdVarsInit ==
    /\ threshold_strategy = [thresholds |-> <<>>, order_size |-> F64FromInt(1)]
    /\ threshold_new = threshold_strategy
    /\ threshold_call = <<>>
    /\ threshold_seen = 0

\* A caller-owned OrderBook before any use: OrderBook::new.
OrderBookVarsInit ==
    /\ order_book = OrderBook_new("BTC/USD", 1)
    /\ order_book_call = <<>>

BookVarsInit ==
    /\ books = <<>>
    /\ vwap_call = <<>>
    /\ read_call = <<>>
    /\ last_tick = <<>>
    /\ prices_seen = {}

FeedVarsInit ==
    /\ handler_pc = "recv"
    /\ consumer_pc = "iter"
    /\ process_alive = TRUE
    /\ chan = <<>>
    /\ counters = [c \in {"feed_ticks_received_total"} |-> 0]
    /\ latency_histogram = <<>>
    /\ packets = <<>>
    /\ offers = <<>>
    /\ delivered = <<>>

BookInit ==
    /\ overflow_checks = FALSE
    /\ FeedVarsInit
    /\ ThreadVarsInit
    /\ FrameVarsInit
    /\ ReplayVarsInit
    /\ EngineVarsInit
    /\ MarketMakingVarsInit
    /\ BookVarsInit
    /\ OrderBookVarsInit
    /\ ThresholdVarsInit
    /\ MeanReversionVarsInit

BookNext ==
    \/ book_update
    \/ book_calculate_vwap
    \/ book_get_book
    \/ book_get_all_books
    \/ book_get_bbo
    \/ book_is_crossed
    \/ book_get_depth

BookSpec == BookInit /\ [][BookNext]_vars

FeedInit ==
    /\ overflow_checks \in BOOLEAN
    /\ FeedVarsInit
    /\ ThreadVarsInit
    /\ FrameVarsInit
    /\ ReplayVarsInit
    /\ EngineVarsInit
    /\ MarketMakingVarsInit
    /\ BookVarsInit
    /\ OrderBookVarsInit
    /\ ThresholdVarsInit
    /\ MeanReversionVarsInit

(***************************************************************************)
(* hft-types: an OrderBook used directly, as in tests/integration_test.rs. *)
(***************************************************************************)
\* BookLevel { price, quantity } values a caller pushes.
BookLevels == [price : Prices, quantity : {F64FromInt(1)}]

\* A spread taken as bid - ask.
OrderBook_spread_reversed(book) ==
    LET ask == OrderBook_best_ask(book)
        bid == OrderBook_best_bid(book)
    IN  IF ask # <<>> /\ bid # <<>> THEN <<F64Sub(bid[1].price, ask[1].price)>> ELSE <<>>

\* OrderBook::spread: Some(ask.price - bid.price) when both sides have a best.
OrderBook_spread(book) ==
    LET ask == OrderBook_best_ask(book)
        bid == OrderBook_best_bid(book)
    IN  IF ask # <<>> /\ bid # <<>> THEN <<F64Sub(ask[1].price, bid[1].price)>> ELSE <<>>

\* OrderBook::mid_price: Some((ask.price + bid.price) / 2.0)
OrderBook_mid_price(book) ==
    LET ask == OrderBook_best_ask(book)
        bid == OrderBook_best_bid(book)
    IN  IF ask # <<>> /\ bid # <<>>
        THEN <<F64Div(F64Add(ask[1].price, bid[1].price), F64FromInt(2))>>
        ELSE <<>>

\* let mut book = OrderBook::new(symbol, timestamp)
order_book_new ==
    /\ \E symbol \in Symbols, timestamp \in Times :
          order_book' = OrderBook_new(symbol, timestamp)
    /\ order_book_call' = <<>>
    /\ UNCHANGED not_order_book_vars

\* book.bids.push(level)
order_book_push_bid ==
    /\ Len(order_book.bids) < MaxSide
    /\ \E level \in BookLevels :
          order_book' = [order_book EXCEPT !.bids = Append(@, level)]
    /\ order_book_call' = <<>>
    /\ UNCHANGED not_order_book_vars

\* book.asks.push(level)
order_book_push_ask ==
    /\ Len(order_book.asks) < MaxSide
    /\ \E level \in BookLevels :
          order_book' = [order_book EXCEPT !.asks = Append(@, level)]
    /\ order_book_call' = <<>>
    /\ UNCHANGED not_order_book_vars

\* book.best_bid()
order_book_best_bid ==
    /\ order_book_call' = <<[op |-> "best_bid", result |-> OrderBook_best_bid(order_book)]>>
    /\ UNCHANGED order_book
    /\ UNCHANGED not_order_book_vars

\* book.best_ask()
order_book_best_ask ==
    /\ order_book_call' = <<[op |-> "best_ask", result |-> OrderBook_best_ask(order_book)]>>
    /\ UNCHANGED order_book
    /\ UNCHANGED not_order_book_vars

\* book.spread()
order_book_spread ==
    /\ order_book_call' = <<[op |-> "spread", result |-> OrderBook_spread(order_book)]>>
    /\ UNCHANGED order_book
    /\ UNCHANGED not_order_book_vars

\* book.mid_price()
order_book_mid_price ==
    /\ order_book_call' = <<[op |-> "mid_price", result |-> OrderBook_mid_price(order_book)]>>
    /\ UNCHANGED order_book
    /\ UNCHANGED not_order_book_vars

OrderBookInit ==
    /\ overflow_checks = FALSE
    /\ FeedVarsInit
    /\ ThreadVarsInit
    /\ FrameVarsInit
    /\ ReplayVarsInit
    /\ EngineVarsInit
    /\ MarketMakingVarsInit
    /\ BookVarsInit
    /\ OrderBookVarsInit
    /\ ThresholdVarsInit
    /\ MeanReversionVarsInit

OrderBookNext ==
    \/ order_book_new
    \/ order_book_push_bid
    \/ order_book_push_ask
    \/ order_book_best_bid
    \/ order_book_best_ask
    \/ order_book_spread
    \/ order_book_mid_price

OrderBookSpec == OrderBookInit /\ [][OrderBookNext]_vars

(***************************************************************************)
(* hft-types: ThresholdStrategy.                                           *)
(***************************************************************************)
\* TradingSignal
TradingSignal(symbol, side, price, quantity, signal_type, timestamp_nanos) ==
    [symbol |-> symbol, side |-> side, price |-> price, quantity |-> quantity,
     signal_type |-> signal_type, timestamp_nanos |-> timestamp_nanos]

\* ThresholdStrategy::new
ThresholdStrategy_new(thresholds, order_size) ==
    [thresholds |-> thresholds, order_size |-> order_size]

\* A process_tick that buys at the low band as well.
ThresholdStrategy_process_tick_inclusive(self, tick, now) ==
    IF tick.symbol \in DOMAIN self.thresholds
    THEN LET low  == self.thresholds[tick.symbol].low
             high == self.thresholds[tick.symbol].high
             side == IF F64Le(tick.price, low) THEN <<"Buy">>
                     ELSE IF F64Lt(high, tick.price) THEN <<"Sell">>
                     ELSE <<>>
         IN  [self |-> self,
              signal |-> IF side = <<>> THEN <<>>
                         ELSE <<TradingSignal(tick.symbol, side[1], tick.price,
                                              self.order_size, "Threshold", now)>>]
    ELSE [self |-> self, signal |-> <<>>]

\* A process_tick that lowers the low band to the price it bought at.
ThresholdStrategy_process_tick_adaptive(self, tick, now) ==
    IF tick.symbol \in DOMAIN self.thresholds
    THEN LET low  == self.thresholds[tick.symbol].low
             high == self.thresholds[tick.symbol].high
             side == IF F64Lt(tick.price, low) THEN <<"Buy">>
                     ELSE IF F64Lt(high, tick.price) THEN <<"Sell">>
                     ELSE <<>>
         IN  [self |-> IF side = <<"Buy">>
                       THEN [self EXCEPT !.thresholds[tick.symbol].low = tick.price]
                       ELSE self,
              signal |-> IF side = <<>> THEN <<>>
                         ELSE <<TradingSignal(tick.symbol, side[1], tick.price,
                                              self.order_size, "Threshold", now)>>]
    ELSE [self |-> self, signal |-> <<>>]

\* ThresholdStrategy::process_tick on `&mut self`: the strategy afterwards and
\* the Option<TradingSignal> (<<>> is None); now is the SystemTime::now() read.
ThresholdStrategy_process_tick(self, tick, now) ==
    IF tick.symbol \in DOMAIN self.thresholds
    THEN LET low  == self.thresholds[tick.symbol].low
             high == self.thresholds[tick.symbol].high
             side == IF F64Lt(tick.price, low) THEN <<"Buy">>
                     ELSE IF F64Lt(high, tick.price) THEN <<"Sell">>
                     ELSE <<>>
         IN  [self |-> self,
              signal |-> IF side = <<>> THEN <<>>
                         ELSE <<TradingSignal(tick.symbol, side[1], tick.price,
                                              self.order_size, "Threshold", now)>>]
    ELSE [self |-> self, signal |-> <<>>]

\* The (low, high) bands a ThresholdStrategy is configured with.
Bands == [low : StrategyPrices, high : StrategyPrices]

\* A caller applies process_tick to the ThresholdStrategy.
threshold_process_tick ==
    /\ threshold_seen < MaxTicks
    /\ \E tick \in StrategyTicks, now \in Times :
          LET done == ThresholdStrategy_process_tick(threshold_strategy, tick, now)
          IN  /\ threshold_strategy' = done.self
              /\ threshold_call' = <<[tick |-> tick, now |-> now, result |-> done.signal]>>
    /\ threshold_seen' = threshold_seen + 1
    /\ UNCHANGED threshold_new
    /\ UNCHANGED not_threshold_vars

\* ThresholdStrategy::new with a band for BTC/USD and none for ETH/USD.
ThresholdInit ==
    /\ overflow_checks = FALSE
    /\ FeedVarsInit
    /\ ThreadVarsInit
    /\ FrameVarsInit
    /\ ReplayVarsInit
    /\ EngineVarsInit
    /\ MarketMakingVarsInit
    /\ BookVarsInit
    /\ OrderBookVarsInit
    /\ \E band \in Bands, order_size \in OrderSizes :
          threshold_strategy =
              ThresholdStrategy_new([s \in {"BTC/USD"} |-> band], order_size)
    /\ threshold_new = threshold_strategy
    /\ threshold_call = <<>>
    /\ threshold_seen = 0
    /\ MeanReversionVarsInit

ThresholdNext == threshold_process_tick

ThresholdSpec == ThresholdInit /\ [][ThresholdNext]_vars

(***************************************************************************)
(* hft-types: MeanReversionStrategy.                                       *)
(***************************************************************************)
\* MeanReversionStrategy::new
MeanReversionStrategy_new(window_size, std_dev_threshold, order_size) ==
    [window_size |-> window_size, std_dev_threshold |-> std_dev_threshold,
     order_size |-> order_size, price_history |-> <<>>]

\* calculate_mean: prices.iter().sum::<f64>() / prices.len() as f64
calculate_mean(prices) == F64Div(F64Sum(prices), F64FromInt(Len(prices)))

\* calculate_std_dev: the square root of the mean of (p - mean).powi(2)
calculate_std_dev(prices, mean) ==
    LET squares == [k \in DOMAIN prices |->
                       F64Mul(F64Sub(prices[k], mean), F64Sub(prices[k], mean))]
    IN  F64Sqrt(F64Div(F64Sum(squares), F64FromInt(Len(prices))))

\* let z_score = (tick.price - mean) / std_dev
z_score(history, price) ==
    LET mean    == calculate_mean(history)
        std_dev == calculate_std_dev(history, mean)
    IN  F64Div(F64Sub(price, mean), std_dev)

\* The price windows a strategy can hold.
Windows == UNION {[1..n -> StrategyPrices] : n \in 0..MaxWindow}

\* z_score tabulated over the windows and prices (evaluated once).
z_score_table == [h \in Windows |-> [p \in StrategyPrices |-> z_score(h, p)]]

\* history.push(tick.price); if history.len() > window_size { history.remove(0) }
pushed_history(self, tick) ==
    LET old    == IF tick.symbol \in DOMAIN self.price_history
                  THEN self.price_history[tick.symbol] ELSE <<>>
        pushed == Append(old, tick.price)
    IN  IF Len(pushed) > self.window_size THEN Tail(pushed) ELSE pushed

\* The strategy after the window update of process_tick.
with_history(self, tick, history) ==
    [self EXCEPT !.price_history =
        [s \in DOMAIN self.price_history \cup {tick.symbol} |->
            IF s = tick.symbol THEN history ELSE self.price_history[s]]]

\* A signal decided by `!(z.abs() <= threshold)`, which a NaN z-score passes.
mr_signal_not_le(self, tick, z, now) ==
    IF ~F64Le(F64Abs(z), self.std_dev_threshold)
    THEN <<TradingSignal(tick.symbol, IF F64Lt(F64Zero, z) THEN "Sell" ELSE "Buy",
                         tick.price, self.order_size, "MeanReversion", now)>>
    ELSE <<>>

\* A signal with the sides exchanged.
mr_signal_swapped(self, tick, z, now) ==
    IF F64Lt(self.std_dev_threshold, F64Abs(z))
    THEN <<TradingSignal(tick.symbol, IF F64Lt(F64Zero, z) THEN "Buy" ELSE "Sell",
                         tick.price, self.order_size, "MeanReversion", now)>>
    ELSE <<>>

\* The signal process_tick derives from the z-score: <<>> is None.
mr_signal(self, tick, z, now) ==
    IF F64Lt(self.std_dev_threshold, F64Abs(z))
    THEN <<TradingSignal(tick.symbol, IF F64Lt(F64Zero, z) THEN "Sell" ELSE "Buy",
                         tick.price, self.order_size, "MeanReversion", now)>>
    ELSE <<>>

\* A process_tick without the `history.len() < window_size` return.
MeanReversionStrategy_process_tick_no_warmup(self, tick, now) ==
    LET history == pushed_history(self, tick)
    IN  [self |-> with_history(self, tick, history),
         signal |-> mr_signal(self, tick, z_score_table[history][tick.price], now)]

\* A process_tick that evicts the newest price of a window that is too long.
MeanReversionStrategy_process_tick_evict_newest(self, tick, now) ==
    LET old     == IF tick.symbol \in DOMAIN self.price_history
                   THEN self.price_history[tick.symbol] ELSE <<>>
        pushed  == Append(old, tick.price)
        history == IF Len(pushed) > self.window_size
                   THEN SubSeq(pushed, 1, Len(pushed) - 1) ELSE pushed
    IN  [self |-> with_history(self, tick, history),
         signal |-> IF Len(history) < self.window_size THEN <<>>
                    ELSE mr_signal(self, tick, z_score_table[history][tick.price], now)]

\* MeanReversionStrategy::process_tick on `&mut self`: the strategy afterwards
\* and the Option<TradingSignal>; now is the SystemTime::now() read.
MeanReversionStrategy_process_tick(self, tick, now) ==
    LET history == pushed_history(self, tick)
    IN  [self |-> with_history(self, tick, history),
         signal |-> IF Len(history) < self.window_size THEN <<>>
                    ELSE mr_signal(self, tick, z_score_table[history][tick.price], now)]

\* The std_dev_threshold values a MeanReversionStrategy is configured with.
StdDevThresholds == {F64Lit(1, 2), F64FromInt(2), F64FromInt(-1)}

\* A caller applies process_tick to the MeanReversionStrategy.
mr_process_tick ==
    /\ Len(mr_seen["BTC/USD"]) + Len(mr_seen["ETH/USD"]) < MaxTicks
    /\ \E tick \in StrategyTicks, now \in Times :
          LET done == MeanReversionStrategy_process_tick(mr_strategy, tick, now)
          IN  /\ mr_strategy' = done.self
              /\ mr_call' = <<[tick |-> tick, now |-> now, result |-> done.signal]>>
              /\ mr_seen' = [mr_seen EXCEPT ![tick.symbol] = Append(@, tick.price)]
    /\ UNCHANGED not_mr_vars

\* MeanReversionStrategy::new
MeanReversionInit ==
    /\ overflow_checks = FALSE
    /\ FeedVarsInit
    /\ ThreadVarsInit
    /\ FrameVarsInit
    /\ ReplayVarsInit
    /\ EngineVarsInit
    /\ MarketMakingVarsInit
    /\ BookVarsInit
    /\ OrderBookVarsInit
    /\ ThresholdVarsInit
    /\ \E window_size \in 0..MaxWindow, std_dev_threshold \in StdDevThresholds :
          mr_strategy = MeanReversionStrategy_new(window_size, std_dev_threshold,
                                                  F64FromInt(1))
    /\ mr_call = <<>>
    /\ mr_seen = [s \in Symbols |-> <<>>]

MeanReversionNext == mr_process_tick

MeanReversionSpec == MeanReversionInit /\ [][MeanReversionNext]_vars

(***************************************************************************)
(* hft-types: MarketMakingStrategy.                                        *)
(***************************************************************************)
\* MarketMakingStrategy::new
MarketMakingStrategy_new(spread_bps_, order_size) ==
    [spread_bps |-> spread_bps_, order_size |-> order_size, last_prices |-> <<>>]

\* let half_spread = tick.price * (self.spread_bps / 10000.0)
half_spread(self, tick) ==
    F64Mul(tick.price, F64Div(self.spread_bps, F64FromInt(10000)))

\* self.last_prices.insert(symbol, price)
insert(map, key, value) ==
    [k \in DOMAIN map \cup {key} |-> IF k = key THEN value ELSE map[k]]

\* A process_tick that keeps the first price recorded for a symbol.
MarketMakingStrategy_process_tick_keep_first(self, tick, now) ==
    [self |-> [self EXCEPT !.last_prices =
                  IF tick.symbol \in DOMAIN @ THEN @ ELSE insert(@, tick.symbol, tick.price)],
     signal |-> <<TradingSignal(tick.symbol, "Buy", F64Sub(tick.price, half_spread(self, tick)),
                                self.order_size, "MarketMaking", now)>>]

\* MarketMakingStrategy::process_tick on `&mut self`: the strategy afterwards
\* and the Option<TradingSignal>; now is the SystemTime::now() read.
MarketMakingStrategy_process_tick(self, tick, now) ==
    [self |-> [self EXCEPT !.last_prices = insert(@, tick.symbol, tick.price)],
     signal |-> <<TradingSignal(tick.symbol, "Buy", F64Sub(tick.price, half_spread(self, tick)),
                                self.order_size, "MarketMaking", now)>>]

\* The spread_bps values a MarketMakingStrategy is configured with.
SpreadsBps == {F64FromInt(10), F64FromInt(50)}

\* A caller applies process_tick to the MarketMakingStrategy.
mm_process_tick ==
    /\ mm_seen < MaxTicks
    /\ \E tick \in StrategyTicks, now \in Times :
          LET done == MarketMakingStrategy_process_tick(mm_strategy, tick, now)
          IN  /\ mm_strategy' = done.self
              /\ mm_call' = <<[tick |-> tick, now |-> now, result |-> done.signal]>>
              /\ mm_latest' = insert(mm_latest, tick.symbol, tick.price)
    /\ mm_seen' = mm_seen + 1
    /\ UNCHANGED not_mm_vars

\* MarketMakingStrategy::new
MarketMakingInit ==
    /\ overflow_checks = FALSE
    /\ FeedVarsInit
    /\ ThreadVarsInit
    /\ FrameVarsInit
    /\ ReplayVarsInit
    /\ EngineVarsInit
    /\ BookVarsInit
    /\ OrderBookVarsInit
    /\ ThresholdVarsInit
    /\ MeanReversionVarsInit
    /\ \E bps \in SpreadsBps, order_size \in OrderSizes :
          mm_strategy = MarketMakingStrategy_new(bps, order_size)
    /\ mm_call = <<>>
    /\ mm_latest = <<>>
    /\ mm_seen = 0

MarketMakingNext == mm_process_tick

MarketMakingSpec == MarketMakingInit /\ [][MarketMakingNext]_vars

(***************************************************************************)
(* strategy_engine: SimpleStrategy between the tick and order channels.    *)
(***************************************************************************)
\* SimpleStrategy::new: the (low, high) bands.
SimpleStrategy_thresholds ==
    [s \in {"BTC/USD", "ETH/USD", "SOL/USD", "AVAX/USD"} |->
        CASE s = "BTC/USD"  -> [low |-> F64FromInt(44000), high |-> F64FromInt(46000)]
          [] s = "ETH/USD"  -> [low |-> F64FromInt(2400), high |-> F64FromInt(2600)]
          [] s = "SOL/USD"  -> [low |-> F64FromInt(95), high |-> F64FromInt(105)]
          [] s = "AVAX/USD" -> [low |-> F64FromInt(24), high |-> F64FromInt(26)]]

\* The ticks that arrive on tick_tx: around the BTC/USD band, above the
\* ETH/USD band, and of a symbol without a band.
EngineTicks ==
    {[symbol |-> "BTC/USD", price |-> F64FromInt(p)] : p \in {43999, 44000, 46001}}
    \cup {[symbol |-> "ETH/USD", price |-> F64FromInt(2601)],
          [symbol |-> "XRP/USD", price |-> F64FromInt(1)]}

\* A decision that buys at the low band as well.
SimpleStrategy_signal_buys_at_band(tick) ==
    IF tick.symbol \in DOMAIN SimpleStrategy_thresholds
    THEN LET low  == SimpleStrategy_thresholds[tick.symbol].low
             high == SimpleStrategy_thresholds[tick.symbol].high
         IN  IF F64Le(tick.price, low) THEN <<"Buy">>
             ELSE IF F64Lt(high, tick.price) THEN <<"Sell">>
             ELSE <<>>
    ELSE <<>>

\* The side SimpleStrategy::process_tick derives: <<>> is None.
SimpleStrategy_signal(tick) ==
    IF tick.symbol \in DOMAIN SimpleStrategy_thresholds
    THEN LET low  == SimpleStrategy_thresholds[tick.symbol].low
             high == SimpleStrategy_thresholds[tick.symbol].high
         IN  IF F64Lt(tick.price, low) THEN <<"Buy">>
             ELSE IF F64Lt(high, tick.price) THEN <<"Sell">>
             ELSE <<>>
    ELSE <<>>

\* Order { symbol, side, price, quantity: 1.0, timestamp_nanos }
Order(tick, side, now) ==
    [symbol |-> tick.symbol, side |-> side, price |-> tick.price,
     quantity |-> F64FromInt(1), timestamp_nanos |-> now]

\* An iterator step that yields the newest buffered item.
iter_next_newest(q) == [item |-> q[Len(q)], chan |-> SubSeq(q, 1, Len(q) - 1)]

\* Receiver::iter().next() on a non-empty channel: the oldest buffered item.
iter_next(q) == [item |-> Head(q), chan |-> Tail(q)]

\* The tick source (mock_tick_generator, or the feed handler): a blocking
\* tx.send, which returns once the channel has room. seq is the position of
\* the tick in the stream (history only).
engine_tick_send ==
    /\ Len(engine_generated) < MaxTicks
    /\ Len(engine_tick_chan) < ChannelCapacity
    /\ \E tick \in EngineTicks :
          LET enriched == [tick |-> tick, seq |-> Len(engine_generated) + 1]
          IN  /\ engine_tick_chan' = Append(engine_tick_chan, enriched)
              /\ engine_generated' = Append(engine_generated, enriched)
    /\ UNCHANGED <<engine_order_chan, engine_current, engine_counters, engine_dequeued,
                   engine_processed, engine_offers, engine_consumed>>
    /\ UNCHANGED not_engine_vars

\* SimpleStrategy::run: tick_rx.iter() yields the next item.
engine_iter_next ==
    /\ engine_current = <<>>
    /\ engine_tick_chan # <<>>
    /\ LET got == iter_next(engine_tick_chan)
       IN  /\ engine_current' = <<got.item>>
           /\ engine_tick_chan' = got.chan
           /\ engine_dequeued' = Append(engine_dequeued, got.item)
    /\ UNCHANGED <<engine_order_chan, engine_counters, engine_generated,
                   engine_processed, engine_offers, engine_consumed>>
    /\ UNCHANGED not_engine_vars

\* SimpleStrategy::process_tick on the dequeued item: on a signal count it,
\* build the Order, try_send it and count it if it was accepted.
engine_process_tick ==
    /\ engine_current # <<>>
    /\ LET enriched == engine_current[1]
           signal   == SimpleStrategy_signal(enriched.tick)
       IN  IF signal = <<>>
           THEN UNCHANGED <<engine_order_chan, engine_counters, engine_offers>>
           ELSE \E now \in Times :
                  LET order == Order(enriched.tick, signal[1], now)
                      sent  == try_send(engine_order_chan, order, OrderCapacity, TRUE)
                  IN  /\ engine_order_chan' = sent.chan
                      /\ engine_counters' =
                            [engine_counters EXCEPT
                                !["strategy_signals_generated_total"] = @ + 1,
                                !["strategy_orders_sent_total"] =
                                    IF sent.result = "Ok" THEN @ + 1 ELSE @]
                      /\ engine_offers' = Append(engine_offers,
                            [order |-> order, trigger |-> enriched.seq,
                             result |-> sent.result])
    /\ engine_processed' = Append(engine_processed, engine_current[1])
    /\ engine_current' = <<>>
    /\ UNCHANGED <<engine_tick_chan, engine_generated, engine_dequeued, engine_consumed>>
    /\ UNCHANGED not_engine_vars

\* The order consumer thread: order_rx.iter() yields the oldest Order.
engine_order_next ==
    /\ engine_order_chan # <<>>
    /\ LET got == iter_next(engine_order_chan)
       IN  /\ engine_consumed' = Append(engine_consumed, got.item)
           /\ engine_order_chan' = got.chan
    /\ UNCHANGED <<engine_tick_chan, engine_current, engine_counters, engine_generated,
                   engine_dequeued, engine_processed, engine_offers>>
    /\ UNCHANGED not_engine_vars

EngineInit ==
    /\ overflow_checks = FALSE
    /\ FeedVarsInit
    /\ ThreadVarsInit
    /\ FrameVarsInit
    /\ ReplayVarsInit
    /\ MarketMakingVarsInit
    /\ BookVarsInit
    /\ OrderBookVarsInit
    /\ ThresholdVarsInit
    /\ MeanReversionVarsInit
    /\ EngineVarsInit

EngineNext ==
    \/ engine_tick_send
    \/ engine_iter_next
    \/ engine_process_tick
    \/ engine_order_next

EngineSpec == EngineInit /\ [][EngineNext]_vars

(***************************************************************************)
(* replay.rs: the JSON lines of serde_json, MarketRecorder, MarketReplayer *)
(* and ReplayStats.                                                        *)
(***************************************************************************)
\* The decimal digits serde_json (itoa) writes for an unsigned integer.
RECURSIVE itoa(_)
itoa(n) == IF n < 10 THEN <<n>> ELSE Append(itoa(n \div 10), n % 10)

\* The unsigned integer serde_json reads from decimal digits.
RECURSIVE parse_integer(_)
parse_integer(ds) ==
    IF ds = <<>> THEN 0
    ELSE 10 * parse_integer(SubSeq(ds, 1, Len(ds) - 1)) + ds[Len(ds)]

\* ryu: the decimal digits * 10^exp10 of fewest digits whose nearest float
\* is x (x finite, > 0).
shortest_decimal(x) ==
    LET value(digits, exp10) ==
            IF exp10 >= 0 THEN F64FromInt(digits * 10^exp10)
            ELSE F64Div(F64FromInt(digits), F64FromInt(10^(-exp10)))
        decimals == [digits : 1..(10^MaxDigits - 1),
                     exp10 : (-(MaxDigits + 2))..(MaxDigits + 2)]
        fits == {c \in decimals : c.digits % 10 # 0 /\ value(c.digits, c.exp10) = x}
    IN  CHOOSE c \in fits : \A o \in fits : c.digits <= o.digits

\* serde_json's serialize_f64: `null` for NaN and the infinities, the ryu
\* decimal otherwise.
format_f64_of(x) ==
    IF IsNaN(x) \/ IsInf(x)
    THEN [null |-> TRUE, neg |-> FALSE, digits |-> 0, exp10 |-> 0]
    ELSE IF x.m = 0 THEN [null |-> FALSE, neg |-> FALSE, digits |-> 0, exp10 |-> 0]
    ELSE LET c == shortest_decimal(F64Abs(x))
         IN  [null |-> FALSE, neg |-> x.m < 0, digits |-> c.digits, exp10 |-> c.exp10]

\* The prices of recorded ticks: 0.1, 45000.0 and NaN.
RecordPrices == {F64Lit(1, 10), F64FromInt(45000), F64NaN}

format_f64_table == [x \in RecordPrices |-> format_f64_of(x)]

format_f64(x) == IF x \in RecordPrices THEN format_f64_table[x] ELSE format_f64_of(x)

\* serde_json's f64_from_parts (default features): the significand as f64,
\* multiplied or divided by the power of ten.
parse_f64(text) ==
    LET f == F64FromInt(text.digits)
        g == IF text.exp10 >= 0 THEN F64Mul(f, F64FromInt(10^text.exp10))
             ELSE F64Div(f, F64FromInt(10^(-text.exp10)))
    IN  IF text.neg THEN F64Neg(g) ELSE g

\* serde_json::to_string(tick): one JSON object with the four fields.
to_string(tick) ==
    [kind |-> "json", symbol |-> tick.symbol, price |-> format_f64(tick.price),
     volume |-> itoa(tick.volume), timestamp_nanos |-> itoa(tick.timestamp_nanos)]

\* A line no tick serializes to: blank (only the newline) or other text.
ForeignLine(kind) ==
    [kind |-> kind, symbol |-> "", price |-> format_f64(F64NaN), volume |-> <<>>,
     timestamp_nanos |-> <<>>]

\* serde_json::from_str::<MarketTick>(&line): <<tick>> for Ok(tick), <<>> for
\* Err. A null price is not an f64.
from_str(line) ==
    IF line.kind # "json" \/ line.price.null THEN <<>>
    ELSE <<[symbol |-> line.symbol, price |-> parse_f64(line.price),
            volume |-> parse_integer(line.volume),
            timestamp_nanos |-> parse_integer(line.timestamp_nanos)]>>

\* The ticks given to record_tick.
RecordTicks ==
    {[symbol |-> "BTC/USD", price |-> F64Lit(1, 10), volume |-> 100,
      timestamp_nanos |-> 2000005],
     [symbol |-> "ETH/USD", price |-> F64FromInt(45000), volume |-> 0, timestamp_nanos |-> 5],
     [symbol |-> "ETH/USD", price |-> F64NaN, volume |-> 100, timestamp_nanos |-> 5]}

\* File::create(path): the file exists and is empty afterwards.
File_create(file) == [exists |-> TRUE, lines |-> <<>>, tail |-> FALSE]

\* MarketRecorder::new
MarketRecorder_new(file) == [self |-> [tick_count |-> 0], file |-> File_create(file)]

\* The file after one more complete line; an unterminated tail becomes part
\* of that line, which then is no tick.
append_line(file, line) ==
    [file EXCEPT !.lines = Append(@, IF file.tail THEN ForeignLine("text") ELSE line),
                 !.tail = FALSE]

\* A record_tick that counts the tick before it writes the line.
MarketRecorder_record_tick_count_first(self, file, tick, io) ==
    LET json == to_string(tick)
    IN  IF io = "Ok"
        THEN [self |-> [self EXCEPT !.tick_count = @ + 1],
              file |-> append_line(file, json), result |-> "Ok"]
        ELSE [self |-> [self EXCEPT !.tick_count = @ + 1],
              file |-> [file EXCEPT !.tail = @ \/ io = "ErrPartial"], result |-> "Err"]

\* MarketRecorder::record_tick. io is the outcome of writeln!: "Ok", "Err"
\* (nothing written) or "ErrPartial" (part of the line written, no newline).
MarketRecorder_record_tick(self, file, tick, io) ==
    LET json == to_string(tick)
    IN  IF io = "Ok"
        THEN [self |-> [self EXCEPT !.tick_count = @ + 1],
              file |-> append_line(file, json), result |-> "Ok"]
        ELSE [self |-> self,
              file |-> [file EXCEPT !.tail = @ \/ io = "ErrPartial"], result |-> "Err"]

\* MarketReplayer::new after File::open succeeded.
MarketReplayer_new == [pos |-> 0, tick_count |-> 0]

\* BufReader::read_line returns 0: the reader has consumed every line and
\* the unterminated tail.
at_end(self, file) == self.pos >= Len(file.lines) + (IF file.tail THEN 1 ELSE 0)

\* A next_tick that skips a line it cannot parse, as the ingestion path does.
RECURSIVE MarketReplayer_next_tick_skip_malformed(_, _)
MarketReplayer_next_tick_skip_malformed(self, file) ==
    IF at_end(self, file)
    THEN [self |-> self, result |-> [kind |-> "None", tick |-> <<>>]]
    ELSE IF self.pos >= Len(file.lines)
    THEN MarketReplayer_next_tick_skip_malformed([self EXCEPT !.pos = @ + 1], file)
    ELSE LET parsed == from_str(file.lines[self.pos + 1])
         IN  IF parsed # <<>>
             THEN [self |-> [self EXCEPT !.pos = @ + 1, !.tick_count = @ + 1],
                   result |-> [kind |-> "Some", tick |-> parsed]]
             ELSE MarketReplayer_next_tick_skip_malformed([self EXCEPT !.pos = @ + 1], file)

\* MarketReplayer::next_tick: result kind "None" is Ok(None), "Some" is
\* Ok(Some(tick)), "Err" is the InvalidData error. An unterminated tail is
\* read as a last line and is no tick.
MarketReplayer_next_tick(self, file) ==
    IF at_end(self, file)
    THEN [self |-> self, result |-> [kind |-> "None", tick |-> <<>>]]
    ELSE IF self.pos >= Len(file.lines)
    THEN [self |-> [self EXCEPT !.pos = @ + 1], result |-> [kind |-> "Err", tick |-> <<>>]]
    ELSE LET parsed == from_str(file.lines[self.pos + 1])
         IN  IF parsed # <<>>
             THEN [self |-> [self EXCEPT !.pos = @ + 1, !.tick_count = @ + 1],
                   result |-> [kind |-> "Some", tick |-> parsed]]
             ELSE [self |-> [self EXCEPT !.pos = @ + 1],
                   result |-> [kind |-> "Err", tick |-> <<>>]]

\* u128 `end - start` without overflow checks.
timestamp_wrapping_sub(a, b) == (a - b) % 2^LogTimestampBits

\* `x as u64`
as_u64(x) == x % 2^DurationBits

NoStats == [total_ticks |-> 0, start_timestamp |-> 0, end_timestamp |-> 0,
            duration_ms |-> 0, symbols |-> {}]

\* The while loop of ReplayStats::from_file and what follows it; acc holds
\* the local variables, symbols being the HashSet.
RECURSIVE from_file_scan(_, _, _, _)
from_file_scan(replayer_, file, acc, checks) ==
    LET next == MarketReplayer_next_tick(replayer_, file)
    IN  IF next.result.kind = "Err" THEN [kind |-> "Err", stats |-> NoStats]
        ELSE IF next.result.kind = "Some"
        THEN LET tick == next.result.tick[1]
             IN  from_file_scan(next.self, file,
                    [total_ticks |-> acc.total_ticks + 1,
                     start_timestamp |-> IF acc.total_ticks = 0 THEN tick.timestamp_nanos
                                         ELSE acc.start_timestamp,
                     end_timestamp |-> tick.timestamp_nanos,
                     duration_ms |-> 0,
                     symbols |-> acc.symbols \cup {tick.symbol}], checks)
        ELSE IF checks /\ acc.start_timestamp > acc.end_timestamp
        THEN [kind |-> "Panic", stats |-> NoStats]
        ELSE [kind |-> "Ok",
              stats |-> [acc EXCEPT !.duration_ms =
                  as_u64(timestamp_wrapping_sub(acc.end_timestamp, acc.start_timestamp)
                         \div 1000000)]]

\* ReplayStats::from_file: kind "Ok" with the statistics, "Err" for an
\* io::Error, "Panic" for the overflow panic of a build with overflow checks.
ReplayStats_from_file(file, checks) ==
    IF ~file.exists THEN [kind |-> "Err", stats |-> NoStats]
    ELSE from_file_scan(MarketReplayer_new, file, NoStats, checks)

\* The orders in which a HashSet can be collected into a Vec.
Orderings(S) ==
    {v \in [1..Cardinality(S) -> S] : \A x \in S : \E i \in DOMAIN v : v[i] = x}

\* The last operation on the path, as replay_call keeps it. kind is the
\* result; stats and symbols (the Vec) are those of from_file; count and
\* lines are tick_count of the receiver and the complete lines of the file
\* before the call; ended tells whether the reader of next_tick had consumed
\* the whole file before the call.
ReplayCall(op, kind, stats, symbols, count, ended) ==
    <<[op |-> op, kind |-> kind, stats |-> stats, symbols |-> symbols,
       count |-> count, lines |-> Len(log_file.lines), ended |-> ended]>>

\* MarketRecorder::new(path): creates or truncates the file. The model opens
\* readers after the sessions that write what they read.
recorder_new ==
    /\ replayer = <<>>
    /\ LET made == MarketRecorder_new(log_file)
       IN  /\ recorder' = <<made.self>>
           /\ log_file' = made.file
    /\ recorded' = <<>>
    /\ replay_call' = ReplayCall("new", "Ok", NoStats, <<>>, 0, FALSE)
    /\ UNCHANGED <<replayer, replayed, log_written>>
    /\ UNCHANGED not_replay_vars

\* recorder.record_tick(&tick)
record_tick ==
    /\ recorder # <<>>
    /\ Len(log_written) < MaxLines
    /\ \E tick \in RecordTicks, io \in {"Ok", "Err", "ErrPartial"} :
          LET done == MarketRecorder_record_tick(recorder[1], log_file, tick, io)
          IN  /\ recorder' = <<done.self>>
              /\ log_file' = done.file
              /\ recorded' = IF done.result = "Ok" THEN Append(recorded, tick)
                             ELSE recorded
              /\ log_written' = log_written
                    \o SubSeq(done.file.lines, Len(log_file.lines) + 1, Len(done.file.lines))
              /\ replay_call' = ReplayCall("record_tick", done.result, NoStats, <<>>,
                                            recorder[1].tick_count, FALSE)
    /\ UNCHANGED <<replayer, replayed>>
    /\ UNCHANGED not_replay_vars

\* recorder.flush(): File::flush does nothing and returns Ok.
recorder_flush ==
    /\ recorder # <<>>
    /\ replay_call' = ReplayCall("flush", "Ok", NoStats, <<>>, recorder[1].tick_count, FALSE)
    /\ UNCHANGED <<log_file, recorder, replayer, recorded, replayed, log_written>>
    /\ UNCHANGED not_replay_vars

\* Another writer of the path appends a line that is no tick.
foreign_line ==
    /\ log_file.exists
    /\ Len(log_written) < MaxLines
    /\ \E kind \in {"blank", "text"} :
          /\ log_file' = append_line(log_file, ForeignLine(kind))
          /\ log_written' = Append(log_written, ForeignLine(IF log_file.tail THEN "text"
                                                            ELSE kind))
    /\ replay_call' = ReplayCall("foreign", "Ok", NoStats, <<>>, 0, FALSE)
    /\ UNCHANGED <<recorder, replayer, recorded, replayed>>
    /\ UNCHANGED not_replay_vars

\* MarketReplayer::new(path): File::open fails if the file does not exist.
replayer_new ==
    /\ log_file.exists
    /\ replayer' = <<MarketReplayer_new>>
    /\ replayed' = <<>>
    /\ replay_call' = ReplayCall("open", "Ok", NoStats, <<>>, 0, FALSE)
    /\ UNCHANGED <<log_file, recorder, recorded, log_written>>
    /\ UNCHANGED not_replay_vars

\* replayer.next_tick()
next_tick ==
    /\ replayer # <<>>
    /\ LET got == MarketReplayer_next_tick(replayer[1], log_file)
       IN  /\ replayer' = <<got.self>>
           /\ replayed' = replayed \o got.result.tick
           /\ replay_call' = ReplayCall("next_tick", got.result.kind, NoStats, <<>>,
                                        replayer[1].tick_count,
                                        at_end(replayer[1], log_file))
    /\ UNCHANGED <<log_file, recorder, recorded, log_written>>
    /\ UNCHANGED not_replay_vars

\* ReplayStats::from_file(path)
stats_from_file ==
    /\ LET got == ReplayStats_from_file(log_file, overflow_checks)
       IN  \E symbols \in Orderings(got.stats.symbols) :
             replay_call' = ReplayCall("from_file", got.kind, got.stats, symbols, 0, FALSE)
    /\ UNCHANGED <<log_file, recorder, replayer, recorded, replayed, log_written>>
    /\ UNCHANGED not_replay_vars

ReplayInit ==
    /\ overflow_checks \in BOOLEAN
    /\ FeedVarsInit
    /\ ThreadVarsInit
    /\ FrameVarsInit
    /\ EngineVarsInit
    /\ MarketMakingVarsInit
    /\ BookVarsInit
    /\ OrderBookVarsInit
    /\ ThresholdVarsInit
    /\ MeanReversionVarsInit
    /\ ReplayVarsInit

ReplayNext ==
    \/ recorder_new
    \/ record_tick
    \/ recorder_flush
    \/ foreign_line
    \/ replayer_new
    \/ next_tick
    \/ stats_from_file

ReplaySpec == ReplayInit /\ [][ReplayNext]_vars

(***************************************************************************)
(* messaging.rs: Message, its JSON text, and MessageFrame.                 *)
(***************************************************************************)
\* The Messages given to MessageFrame::new: Tick, Heartbeat and Shutdown.
\* tick, sender and timestamp hold a fixed value where the variant has none.
Messages ==
    {[variant |-> "Tick", tick |-> t, sender |-> "", timestamp |-> 0] : t \in RecordTicks}
    \cup {[variant |-> "Heartbeat", tick |-> CHOOSE t \in RecordTicks : IsNaN(t.price),
           sender |-> sender, timestamp |-> ts] :
             sender \in {"feed", "strategy"}, ts \in {5, 2000005}}
    \cup {[variant |-> "Shutdown", tick |-> CHOOSE t \in RecordTicks : IsNaN(t.price),
           sender |-> "", timestamp |-> 0]}

\* The JSON value serde writes for a Message (externally tagged enum).
Message_to_json(message) ==
    [variant |-> message.variant, tick |-> to_string(message.tick),
     sender |-> message.sender, timestamp |-> itoa(message.timestamp)]

\* The Message serde reads from a JSON value: <<message>>, or <<>> for Err.
Message_from_json(json) ==
    IF json.variant = "Tick"
    THEN LET tick == from_str(json.tick)
         IN  IF tick = <<>> THEN <<>>
             ELSE <<[variant |-> "Tick", tick |-> tick[1], sender |-> "",
                     timestamp |-> 0]>>
    ELSE <<[variant |-> json.variant, tick |-> CHOOSE t \in RecordTicks : IsNaN(t.price),
            sender |-> json.sender, timestamp |-> parse_integer(json.timestamp)]>>

\* UTF-8 bytes of the strings of the modelled Messages.
StringBytes ==
    [s \in {"BTC/USD", "ETH/USD", "feed", "strategy", ""} |->
        CASE s = "BTC/USD" -> <<66, 84, 67, 47, 85, 83, 68>>
          [] s = "ETH/USD" -> <<69, 84, 72, 47, 85, 83, 68>>
          [] s = "feed"    -> <<102, 101, 101, 100>>
          [] s = "strategy" -> <<115, 116, 114, 97, 116, 101, 103, 121>>
          [] s = ""        -> <<>>]

\* ASCII of decimal digits.
digit_bytes(ds) == [i \in DOMAIN ds |-> 48 + ds[i]]

\* The text of a price: `null`, or the decimal as ryu prints it between
\* 1e-5 and 1e16 (with a fraction part).
f64_bytes(price) ==
    LET ds == digit_bytes(itoa(price.digits))
        n  == Len(ds)
        k  == -price.exp10
        zeros(z) == [i \in 1..z |-> 48]
        abs == IF k <= 0 THEN ds \o zeros(-k) \o <<46, 48>>
               ELSE IF n > k THEN SubSeq(ds, 1, n - k) \o <<46>> \o SubSeq(ds, n - k + 1, n)
               ELSE <<48, 46>> \o zeros(k - n) \o ds
    IN  IF price.null THEN <<110, 117, 108, 108>>
        ELSE IF price.neg THEN <<45>> \o abs ELSE abs

\* serde_json::to_vec: the compact JSON text of the value.
json_bytes(json) ==
    CASE json.variant = "Tick" ->
            <<123, 34, 84, 105, 99, 107, 34, 58, 123, 34, 115, 121, 109, 98, 111, 108, 34, 58, 34>> \o StringBytes[json.tick.symbol]
            \o <<34, 44, 34, 112, 114, 105, 99, 101, 34, 58>> \o f64_bytes(json.tick.price)
            \o <<44, 34, 118, 111, 108, 117, 109, 101, 34, 58>> \o digit_bytes(json.tick.volume)
            \o <<44, 34, 116, 105, 109, 101, 115, 116, 97, 109, 112, 95, 110, 97, 110, 111, 115, 34, 58>> \o digit_bytes(json.tick.timestamp_nanos)
            \o <<125, 125>>
      [] json.variant = "Heartbeat" ->
            <<123, 34, 72, 101, 97, 114, 116, 98, 101, 97, 116, 34, 58, 123, 34, 115, 101, 110, 100, 101, 114, 34, 58, 34>> \o StringBytes[json.sender]
            \o <<34, 44, 34, 116, 105, 109, 101, 115, 116, 97, 109, 112, 34, 58>> \o digit_bytes(json.timestamp)
            \o <<125, 125>>
      [] json.variant = "Shutdown" -> <<34, 83, 104, 117, 116, 100, 111, 119, 110, 34>>

\* Message::serialize
Message_serialize(message) == json_bytes(Message_to_json(message))

\* The JSON texts of the modelled Messages, by the value they denote.
JsonTexts == {[json |-> Message_to_json(msg), bytes |-> Message_serialize(msg)] :
                msg \in Messages}

\* Message::deserialize: serde_json::from_slice reads the JSON value of the
\* text and then the Message of the value; <<>> is Err.
Message_deserialize(data) ==
    LET read == {t \in JsonTexts : t.bytes = data}
    IN  IF read = {} THEN <<>>
        ELSE Message_from_json((CHOOSE t \in read : TRUE).json)

\* u32::to_be_bytes
to_be_bytes(n) ==
    <<(n \div 2^24) % 256, (n \div 2^16) % 256, (n \div 2^8) % 256, n % 256>>

\* MessageFrame::new (Message::serialize does not fail for these Messages;
\* payload.len() is below 2^32 in the model, where `as u32` keeps it).
MessageFrame_new(message) ==
    LET payload == Message_serialize(message)
    IN  [length |-> Len(payload), payload |-> payload]

\* MessageFrame::to_bytes
MessageFrame_to_bytes(self) == to_be_bytes(self.length) \o self.payload

\* MessageFrame::from_length_and_payload
MessageFrame_from_length_and_payload(length, payload) ==
    [length |-> length, payload |-> payload]

\* MessageFrame::parse_message: <<message>> for Ok, <<>> for Err.
MessageFrame_parse_message(self) == Message_deserialize(self.payload)

\* The payloads given to from_length_and_payload: received Message texts,
\* nothing, and a text that is no Message.
Payloads == {Message_serialize(msg) : msg \in Messages} \cup {<<>>, <<123, 125>>}

FrameCall(op, message, bytes, parsed) ==
    <<[op |-> op, message |-> message, bytes |-> bytes, parsed |-> parsed]>>

frame_new ==
    /\ \E message \in Messages :
          /\ frame' = <<MessageFrame_new(message)>>
          /\ frame_call' = FrameCall("new", <<message>>, <<>>, <<>>)
    /\ UNCHANGED not_frame_vars

frame_from_length_and_payload ==
    /\ \E payload \in Payloads : \E length \in {0, Len(payload), Len(payload) + 1} :
          /\ frame' = <<MessageFrame_from_length_and_payload(length, payload)>>
          /\ frame_call' = FrameCall("from_length_and_payload", <<>>, <<>>, <<>>)
    /\ UNCHANGED not_frame_vars

\* frame.to_bytes(); the call record keeps the Message the frame was made of.
frame_to_bytes ==
    /\ frame # <<>>
    /\ frame_call' = FrameCall("to_bytes", frame_call[1].message,
                               MessageFrame_to_bytes(frame[1]), <<>>)
    /\ UNCHANGED frame
    /\ UNCHANGED not_frame_vars

\* frame.parse_message()
frame_parse_message ==
    /\ frame # <<>>
    /\ frame_call' = FrameCall("parse_message", frame_call[1].message, <<>>,
                               MessageFrame_parse_message(frame[1]))
    /\ UNCHANGED frame
    /\ UNCHANGED not_frame_vars

FrameInit ==
    /\ overflow_checks = FALSE
    /\ FeedVarsInit
    /\ ThreadVarsInit
    /\ ReplayVarsInit
    /\ EngineVarsInit
    /\ MarketMakingVarsInit
    /\ BookVarsInit
    /\ OrderBookVarsInit
    /\ ThresholdVarsInit
    /\ MeanReversionVarsInit
    /\ FrameVarsInit

FrameNext ==
    \/ frame_new
    \/ frame_from_length_and_payload
    \/ frame_to_bytes
    \/ frame_parse_message

FrameSpec == FrameInit /\ [][FrameNext]_vars

(***************************************************************************)
(* The threads of feed_handler and strategy_engine and the objects each    *)
(* holds and touches.                                                      *)
(***************************************************************************)
\* The bounded crossbeam channels.
Channels == {"fh.channel", "se.tick_channel", "se.order_channel"}

\* held after thread t obtained handles to the objects os.
holding(t, os) == [o \in DOMAIN held |-> IF o \in os THEN held[o] \cup {t} ELSE held[o]]

\* accessed after thread t read or mutated the objects os.
touching(t, os) ==
    [o \in DOMAIN accessed |-> IF o \in os THEN accessed[o] \cup {t} ELSE accessed[o]]

\* A step of thread t from pc `from` to pc `to` that obtains handles to
\* `gets` and reads or mutates `uses`.
thread_step(t, from, to, gets, uses) ==
    /\ thread_pc[t] = from
    /\ thread_pc' = [thread_pc EXCEPT ![t] = to]
    /\ held' = holding(t, gets \cup uses)
    /\ accessed' = touching(t, uses)
    /\ UNCHANGED not_thread_vars

\* feed_handler main: init_metrics()
fh_init_metrics ==
    thread_step("fh.main", "init_metrics", "channel", {}, {"fh.REGISTRY", "fh.TICKS_RECEIVED", "fh.LATENCY_HISTOGRAM"})

\* feed_handler main: bounded::<EnrichedTick>(100_000)
fh_channel == thread_step("fh.main", "channel", "spawn", {"fh.channel"}, {})

\* feed_handler main: std::thread::spawn of strategy_consumer, whose closure
\* captures strategy_rx and the Arc of a clone of REGISTRY
fh_spawn_consumer ==
    /\ thread_pc["fh.main"] = "spawn"
    /\ thread_pc' = [thread_pc EXCEPT !["fh.main"] = "new", !["fh.consumer"] = "iter"]
    /\ held' = [o \in DOMAIN held |->
                  IF o \in {"fh.channel", "fh.REGISTRY"} THEN held[o] \cup {"fh.consumer"}
                  ELSE held[o]]
    /\ accessed' = touching("fh.main", {"fh.REGISTRY"})
    /\ UNCHANGED not_thread_vars

\* feed_handler main: FeedHandler::new
fh_handler_new == thread_step("fh.main", "new", "run", {}, {"fh.handler"})

\* feed_handler main: one pass of the loop of handler.run(): socket and
\* buffer, the two metrics and try_send
fh_run == thread_step("fh.main", "run", "run", {},
                {"fh.handler", "fh.TICKS_RECEIVED", "fh.LATENCY_HISTOGRAM", "fh.channel"})

\* feed_handler consumer thread: one pass of its loop over rx.iter();
\* _registry is unused
fh_consumer == thread_step("fh.consumer", "iter", "iter", {}, {"fh.channel"})

\* strategy_engine main: init_metrics()
se_init_metrics ==
    thread_step("se.main", "init_metrics", "channels", {}, {"se.REGISTRY", "se.SIGNALS_GENERATED", "se.ORDERS_SENT"})

\* strategy_engine main: the two bounded channels
se_channels ==
    thread_step("se.main", "channels", "spawn_generator",
                {"se.tick_channel", "se.order_channel"}, {})

\* strategy_engine main: spawn of mock_tick_generator, which captures tick_tx
se_spawn_generator ==
    /\ thread_pc["se.main"] = "spawn_generator"
    /\ thread_pc' = [thread_pc EXCEPT !["se.main"] = "spawn_order_consumer",
                                      !["se.generator"] = "loop"]
    /\ held' = holding("se.generator", {"se.tick_channel"})
    /\ UNCHANGED accessed
    /\ UNCHANGED not_thread_vars

\* strategy_engine main: spawn of the order consumer, which captures order_rx
se_spawn_order_consumer ==
    /\ thread_pc["se.main"] = "spawn_order_consumer"
    /\ thread_pc' = [thread_pc EXCEPT !["se.main"] = "new",
                                      !["se.order_consumer"] = "iter"]
    /\ held' = holding("se.order_consumer", {"se.order_channel"})
    /\ UNCHANGED accessed
    /\ UNCHANGED not_thread_vars

\* strategy_engine main: SimpleStrategy::new(order_tx)
se_strategy_new == thread_step("se.main", "new", "run", {}, {"se.strategy"})

\* strategy_engine main: one pass of the loop of strategy.run(tick_rx):
\* tick_rx.iter(), then process_tick with the thresholds, the two counters
\* and order_tx.try_send
se_run ==
    thread_step("se.main", "run", "run", {},
                {"se.tick_channel", "se.strategy", "se.SIGNALS_GENERATED",
                 "se.ORDERS_SENT", "se.order_channel"})

\* A generator that looks up the strategy's bands.
se_generator_reads_strategy ==
    thread_step("se.generator", "loop", "loop", {},
                {"se.counter", "se.tick_channel", "se.strategy"})

\* strategy_engine generator thread: one pass of its loop: its counter and
\* tx.send
se_generator ==
    thread_step("se.generator", "loop", "loop", {}, {"se.counter", "se.tick_channel"})

\* strategy_engine order consumer thread: one pass of its loop
se_order_consumer ==
    thread_step("se.order_consumer", "iter", "iter", {}, {"se.order_channel"})

ThreadInit ==
    /\ overflow_checks = FALSE
    /\ FeedVarsInit
    /\ FrameVarsInit
    /\ ReplayVarsInit
    /\ EngineVarsInit
    /\ MarketMakingVarsInit
    /\ BookVarsInit
    /\ OrderBookVarsInit
    /\ ThresholdVarsInit
    /\ MeanReversionVarsInit
    /\ ThreadVarsInit

ThreadNext ==
    \/ fh_init_metrics
    \/ fh_channel
    \/ fh_spawn_consumer
    \/ fh_handler_new
    \/ fh_run
    \/ fh_consumer
    \/ se_init_metrics
    \/ se_channels
    \/ se_spawn_generator
    \/ se_spawn_order_consumer
    \/ se_strategy_new
    \/ se_run
    \/ se_generator
    \/ se_order_consumer

ThreadSpec == ThreadInit /\ [][ThreadNext]_vars

FeedNext ==
    \/ handler_parse_error
    \/ handler_panic
    \/ handler_forward
    \/ handler_recv_error
    \/ process_exit
    \/ consumer_next
    \/ consumer_exit

FeedSpec == FeedInit /\ [][FeedNext]_vars

(***************************************************************************)
(* Properties of the feed handler (checked under FeedSpec).                *)
(***************************************************************************)
Rejected == {k \in DOMAIN offers : offers[k].result = "Full"}

WellFormedPackets == {i \in DOMAIN packets : packets[i] # Malformed}

\* The EnrichedTicks the channel accepted, in try_send order.
Accepted ==
    LET ok == SelectSeq(offers, LAMBDA o : o.result = "Ok")
    IN  [k \in DOMAIN ok |-> ok[k].enriched]

\* C1: forwarding an EnrichedTick never blocks: the Ok arm of the loop can
\* always run, and when it forwards a tick to a channel that already holds
\* ChannelCapacity items, try_send rejects that tick, the queued items stay
\* as they are, in order, and the loop is back at recv_from.
NonBlockingDropNewest ==
    /\ [](handler_pc = "recv" /\ Len(packets) < MaxPackets => ENABLED handler_forward)
    /\ [][(Len(offers') > Len(offers) /\ Len(chan) = ChannelCapacity)
            => /\ offers'[Len(offers')].result = "Full"
               /\ chan' = chan
               /\ handler_pc' = "recv"]_vars

\* C1 witness: the latest tick was rejected by a full channel and the handler
\* is waiting for the next packet.
RejectedOnFull ==
    /\ offers # <<>>
    /\ offers[Len(offers)].result = "Full"
    /\ Len(chan) = ChannelCapacity
    /\ handler_pc = "recv"

\* C2: every tick rejected on a full channel is counted: once ticks have
\* been rejected, a counter of the registry other than the tick-received
\* counter holds the number of rejections.
DropCounterCountsRejections ==
    Rejected # {}
       => \E c \in DOMAIN counters \ {"feed_ticks_received_total"} :
             counters[c] = Cardinality(Rejected)

\* C3: latency is computed with signed arithmetic: the handler never panics,
\* and a tick stamped later than its receive time gets the negative latency
\* (receive_time_nanos - timestamp_nanos) / 1000.
SignedLatency ==
    /\ handler_pc # "panicked"
    /\ \A k \in DOMAIN offers :
          LET e == offers[k].enriched
          IN  e.tick.timestamp_nanos > e.receive_time_nanos
                 => /\ e.latency_micros =
                         F64Div(F64FromInt(e.receive_time_nanos - e.tick.timestamp_nanos),
                                F64FromInt(1000))
                    /\ F64Lt(e.latency_micros, F64Zero)

\* C4: a malformed packet is dropped without ending ingestion: nothing is
\* enqueued for it, the tick-received counter counts well-formed packets
\* only, and every well-formed packet received after a malformed one is
\* enriched and offered to the channel.
MalformedDroppedIngestionContinues ==
    /\ \A i \in DOMAIN packets :
          packets[i] = Malformed
             => /\ \A k \in DOMAIN offers : offers[k].enriched.pkt # i
                /\ \A j \in WellFormedPackets :
                      j > i => \E k \in DOMAIN offers : offers[k].enriched.pkt = j
    /\ counters["feed_ticks_received_total"] <= Cardinality(WellFormedPackets)

\* C5: exactly one EnrichedTick is created per parsed tick (none for a
\* malformed packet), and the consumer receives the accepted ticks in FIFO
\* order, each once: what was delivered followed by what is still queued is
\* the sequence of accepted ticks, so a rejected tick is never delivered.
ExactlyOnceFifo ==
    /\ \A i \in DOMAIN packets :
          Cardinality({k \in DOMAIN offers : offers[k].enriched.pkt = i})
             = IF packets[i] = Malformed THEN 0 ELSE 1
    /\ delivered \o chan = Accepted

\* C6: the consumer loop ends only after the channel was closed and every
\* item the channel accepted has been processed; nothing is left buffered.
ConsumerDrainsBeforeExit ==
    consumer_pc # "iter"
       => /\ handler_pc # "recv"
          /\ chan = <<>>
          /\ delivered = Accepted

(***************************************************************************)
(* Properties of the OrderBookManager (checked under BookSpec).            *)
(***************************************************************************)
\* NumLevels bids strictly decreasing, NumLevels asks strictly increasing,
\* best bid below best ask.
StrictlyOrdered(book) ==
    /\ Len(book.bids) = NumLevels
    /\ Len(book.asks) = NumLevels
    /\ \A k \in 1..(NumLevels - 1) :
          /\ F64Lt(book.bids[k + 1].price, book.bids[k].price)
          /\ F64Lt(book.asks[k].price, book.asks[k + 1].price)
    /\ F64Lt(book.bids[1].price, book.asks[1].price)

\* C7 as stated: after updates whose ticks all have price >= 0, every book
\* is strictly ordered.
OrderedForNonNegativePrices ==
    (\A p \in prices_seen : F64Le(F64Zero, p))
       => \A s \in DOMAIN books : StrictlyOrdered(books[s])

\* C7 as amended: after updates whose ticks all have price > 0, every book
\* holds exactly NumLevels strictly decreasing bids and NumLevels strictly
\* increasing asks, and its best bid is below its best ask.
OrderedForPositivePrices ==
    (\A p \in prices_seen : F64Lt(F64Zero, p))
       => \A s \in DOMAIN books : StrictlyOrdered(books[s])

\* C7 witness: both symbols have a book and every tick so far had price > 0.
BooksFromPositivePrices ==
    /\ DOMAIN books = Symbols
    /\ prices_seen # {}
    /\ \A p \in prices_seen : F64Lt(F64Zero, p)

\* Level i of the book the claim derives from a price and a volume.
DerivedLevel(price, volume, i, side) ==
    LET half   == F64Div(F64Mul(price, F64Lit(10, 10000)), F64FromInt(2))
        offset == F64Mul(F64Mul(F64FromInt(i), price), F64Lit(1, 10000))
    IN  [price |-> IF side = "bid" THEN F64Sub(F64Sub(price, half), offset)
                   ELSE F64Add(F64Add(price, half), offset),
         quantity |-> F64Div(F64FromInt(volume), F64FromInt(i + 1))]

\* The derived sides, tabulated over the inputs (evaluated once).
DerivedSides ==
    [p \in Prices |-> [v \in Volumes |->
        [bids |-> [k \in 1..5 |-> DerivedLevel(p, v, k - 1, "bid")],
         asks |-> [k \in 1..5 |-> DerivedLevel(p, v, k - 1, "ask")]]]]

\* C8: the book of symbol s is a function of the latest tick for s alone:
\* its timestamp is the tick's and level i is priced price -/+ spread/2 -/+
\* i*price*0.0001 with quantity volume/(i+1), whatever ticks came before.
BookIsFunctionOfLastTick ==
    \A s \in DOMAIN books :
       /\ s \in DOMAIN last_tick
       /\ books[s].timestamp_nanos = last_tick[s].timestamp_nanos
       /\ books[s].bids = DerivedSides[last_tick[s].price][last_tick[s].volume].bids
       /\ books[s].asks = DerivedSides[last_tick[s].price][last_tick[s].volume].asks

\* C8 witness: a single symbol has been updated by ticks of at least two
\* different prices.
BookUpdatedTwice ==
    /\ Cardinality(DOMAIN books) = 1
    /\ Cardinality(prices_seen) >= 2

\* C9: the manager holds a book exactly for the symbols that appeared in an
\* update, each book's symbol field is its map key, and the set of symbols
\* with a book never shrinks.
BooksLazyNeverDeleted ==
    /\ [](/\ DOMAIN books = DOMAIN last_tick
          /\ \A s \in DOMAIN books : books[s].symbol = s)
    /\ [][DOMAIN books \subseteq DOMAIN books']_vars

\* C9 witness: ETH/USD has been updated, BTC/USD never, and only ETH/USD has
\* a book.
OnlyUpdatedSymbolHasBook ==
    /\ DOMAIN last_tick = {"ETH/USD"}
    /\ DOMAIN books = {"ETH/USD"}

\* C10: a calculate_vwap over levels whose quantities sum to more than 0
\* returns sum(price*qty)/sum(qty) of the included bid levels, a value
\* between the smallest and the largest included price.
VwapWithinLevelRange ==
    \A c \in {vwap_call[k] : k \in DOMAIN vwap_call} :
       c.symbol \in DOMAIN books =>
          LET levels == vwap_levels(books[c.symbol], c.side_depth)
              qty    == F64Sum([k \in DOMAIN levels |-> levels[k].quantity])
              value  == F64Sum([k \in DOMAIN levels |->
                                   F64Mul(levels[k].price, levels[k].quantity)])
          IN  F64Lt(F64Zero, qty)
                 => /\ c.result = <<F64Div(value, qty)>>
                    /\ \E k \in DOMAIN levels : F64Le(levels[k].price, c.result[1])
                    /\ \E k \in DOMAIN levels : F64Le(c.result[1], levels[k].price)

\* C11: calculate_vwap is total on degenerate input: no result for a symbol
\* without a book; otherwise a result, which is 0 when every quantity of the
\* book is 0, and which for side_depth 0 and for every side_depth above the
\* number of bid levels is the VWAP over all bid levels.
VwapTotalOnDegenerateInput ==
    vwap_call # <<>> =>
        LET c == vwap_call[1]
        IN  IF c.symbol \notin DOMAIN books THEN c.result = <<>>
            ELSE LET bids == books[c.symbol].bids
                 IN  /\ Len(c.result) = 1
                     /\ (\A k \in DOMAIN bids : bids[k].quantity = F64Zero)
                            => c.result = <<F64Zero>>
                     /\ (c.side_depth = 0 \/ c.side_depth > Len(bids))
                            => c.result = calculate_vwap(books, c.symbol, Len(bids))

VwapOfZeroVolumeBeyondDepth ==
    /\ vwap_call # <<>>
    /\ vwap_call[1].symbol \in DOMAIN books
    /\ vwap_call[1].side_depth > Len(books[vwap_call[1].symbol].bids)
    /\ last_tick[vwap_call[1].symbol].volume = 0
    /\ vwap_call[1].result = <<F64Zero>>

\* The meaning of is_crossed: the symbol has a book with a best bid and a
\* best ask, and best_bid.price >= best_ask.price.
CrossedMeaning(c) ==
    c.result = (/\ c.symbol \in DOMAIN books
                /\ books[c.symbol].bids # <<>>
                /\ books[c.symbol].asks # <<>>
                /\ F64Le(books[c.symbol].asks[1].price, books[c.symbol].bids[1].price))

\* C12 as stated: is_crossed has the meaning above, and the book of a symbol
\* whose latest tick has price >= 0 is not crossed.
NotCrossedForNonNegativePrices ==
    (read_call # <<>> /\ read_call[1].op = "is_crossed") =>
        LET c == read_call[1]
        IN  /\ CrossedMeaning(c)
            /\ (c.symbol \in DOMAIN books /\ F64Le(F64Zero, last_tick[c.symbol].price))
                   => c.result = FALSE

\* C12, amended: is_crossed has the meaning above, and the book of a symbol
\* whose latest tick has price > 0 is not crossed.
NotCrossedForPositivePrices ==
    (read_call # <<>> /\ read_call[1].op = "is_crossed") =>
        LET c == read_call[1]
        IN  /\ CrossedMeaning(c)
            /\ (c.symbol \in DOMAIN books /\ F64Lt(F64Zero, last_tick[c.symbol].price))
                   => c.result = FALSE

IsCrossedAfterPositivePrice ==
    /\ read_call # <<>>
    /\ read_call[1].op = "is_crossed"
    /\ read_call[1].symbol \in DOMAIN books
    /\ F64Lt(F64Zero, last_tick[read_call[1].symbol].price)
    /\ read_call[1].result = FALSE

\* C13: get_depth gives no data for a symbol without a book, and otherwise
\* per side the first min(num_levels, length) levels in book order (both
\* sides empty for num_levels 0).
DepthIsPrefix ==
    (read_call # <<>> /\ read_call[1].op = "get_depth") =>
        LET c == read_call[1]
        IN  IF c.symbol \notin DOMAIN books THEN c.result = <<>>
            ELSE /\ Len(c.result) = 1
                 /\ \A side \in {"bids", "asks"} :
                       LET got  == c.result[1][side]
                           have == books[c.symbol][side]
                       IN  /\ Len(got) = Min(c.num_levels, Len(have))
                           /\ \A k \in DOMAIN got : got[k] = have[k]
                           /\ c.num_levels = 0 => got = <<>>

DepthTruncated ==
    /\ read_call # <<>>
    /\ read_call[1].op = "get_depth"
    /\ read_call[1].symbol \in DOMAIN books
    /\ read_call[1].num_levels \in 1..(NumLevels - 1)
    /\ Len(read_call[1].result[1].bids) = read_call[1].num_levels

\* C15: a step that applies get_book, get_all_books, get_bbo, calculate_vwap,
\* is_crossed or get_depth leaves the books of the manager as they were; in
\* particular it creates no book for a symbol that has none.
ReadsLeaveBooksUnchanged ==
    [][(read_call' # <<>> \/ vwap_call' # <<>>) => books' = books]_vars

ReadOfUnknownSymbol ==
    /\ read_call # <<>>
    /\ read_call[1].op \in {"get_book", "get_bbo", "is_crossed", "get_depth"}
    /\ read_call[1].symbol \notin DOMAIN books
    /\ books # <<>>

\* C14: on an OrderBook, best_bid and best_ask are the first level of their
\* side and absent on an empty side; spread is best ask price - best bid
\* price and mid_price is (best ask price + best bid price) / 2, both absent
\* when either side is empty (all four are absent on a fresh book).
OrderBookAccessors ==
    order_book_call # <<>> =>
        LET c == order_book_call[1]
            bids == order_book.bids
            asks == order_book.asks
        IN  /\ c.op = "best_bid" =>
                   c.result = IF Len(bids) = 0 THEN <<>> ELSE <<Head(bids)>>
            /\ c.op = "best_ask" =>
                   c.result = IF Len(asks) = 0 THEN <<>> ELSE <<Head(asks)>>
            /\ c.op = "spread" =>
                   c.result = IF Len(bids) = 0 \/ Len(asks) = 0 THEN <<>>
                              ELSE <<F64Sub(Head(asks).price, Head(bids).price)>>
            /\ c.op = "mid_price" =>
                   c.result = IF Len(bids) = 0 \/ Len(asks) = 0 THEN <<>>
                              ELSE <<F64Div(F64Add(Head(asks).price, Head(bids).price),
                                            F64FromInt(2))>>

SpreadOfTwoSidedBook ==
    /\ order_book_call # <<>>
    /\ order_book_call[1].op = "spread"
    /\ Len(order_book.bids) = MaxSide
    /\ Len(order_book.asks) = MaxSide
    /\ Head(order_book.bids).price # Head(order_book.asks).price
    /\ Len(order_book_call[1].result) = 1

\* C16: for a symbol with band (low, high), process_tick gives Buy iff
\* price < low, Sell iff price > high and price >= low, and no signal when
\* low <= price <= high; for a symbol without a band it gives no signal. A
\* signal carries the tick's symbol and price, the configured order size and
\* the type Threshold.
ThresholdDecision ==
    threshold_call # <<>> =>
        LET c      == threshold_call[1]
            result == c.result
            bands  == threshold_strategy.thresholds
        IN  IF c.tick.symbol \notin DOMAIN bands THEN result = <<>>
            ELSE LET low   == bands[c.tick.symbol].low
                     high  == bands[c.tick.symbol].high
                     price == c.tick.price
                     Is(side) == result # <<>> /\ result[1].side = side
                 IN  /\ Is("Buy") <=> F64Lt(price, low)
                     /\ Is("Sell") <=> (F64Lt(high, price) /\ F64Le(low, price))
                     /\ (F64Le(low, price) /\ F64Le(price, high)) => result = <<>>
                     /\ result # <<>> =>
                           /\ result[1].side \in {"Buy", "Sell"}
                           /\ result[1].symbol = c.tick.symbol
                           /\ result[1].price = price
                           /\ result[1].quantity = threshold_strategy.order_size
                           /\ result[1].signal_type = "Threshold"

ThresholdSellSignal ==
    /\ threshold_call # <<>>
    /\ threshold_call[1].result # <<>>
    /\ threshold_call[1].result[1].side = "Sell"
    /\ threshold_call[1].result[1].quantity = F64FromInt(2)

\* C17: the ThresholdStrategy is always as ThresholdStrategy::new built it
\* (bands and order size), and the decision for a tick is the decision of the
\* newly built strategy for that tick, whatever ticks were processed before.
ThresholdStateless ==
    /\ threshold_strategy = threshold_new
    /\ threshold_call # <<>> =>
          threshold_call[1].result =
              ThresholdStrategy_process_tick(threshold_new, threshold_call[1].tick,
                                             threshold_call[1].now).signal

ThresholdSignalAfterHistory ==
    /\ threshold_seen = MaxTicks
    /\ threshold_call # <<>>
    /\ threshold_call[1].result # <<>>

\* The window of symbol s held by the MeanReversionStrategy (empty before
\* the first tick of s).
WindowOf(s) ==
    IF s \in DOMAIN mr_strategy.price_history THEN mr_strategy.price_history[s] ELSE <<>>

\* C18: each of the first window_size - 1 ticks of a symbol yields no signal.
NoSignalBeforeWindowFull ==
    (mr_call # <<>> /\ Len(mr_seen[mr_call[1].tick.symbol]) < mr_strategy.window_size)
        => mr_call[1].result = <<>>

WarmupTickWithMovingPrice ==
    /\ mr_call # <<>>
    /\ mr_call[1].result = <<>>
    /\ Len(mr_seen[mr_call[1].tick.symbol]) = 2
    /\ mr_strategy.window_size = 3
    /\ mr_seen[mr_call[1].tick.symbol][1] # mr_seen[mr_call[1].tick.symbol][2]

\* C19: the window of every symbol is the prices of its last
\* min(n, window_size) ticks in arrival order, n being the number of its
\* ticks processed; so it is never longer than window_size, the oldest price
\* is the one evicted, and a tick leaves the windows of other symbols alone.
WindowIsLastPrices ==
    \A s \in Symbols :
        LET n == Len(mr_seen[s])
            k == Min(n, mr_strategy.window_size)
        IN  /\ WindowOf(s) = SubSeq(mr_seen[s], n - k + 1, n)
            /\ Len(WindowOf(s)) <= mr_strategy.window_size

WindowEvictedOldest ==
    /\ Len(mr_seen["BTC/USD"]) = 2
    /\ mr_strategy.window_size = 1
    /\ mr_seen["BTC/USD"][1] # mr_seen["BTC/USD"][2]
    /\ Len(WindowOf("ETH/USD")) = 1

\* C20: once the window of a symbol is full, a tick that leaves all prices
\* of the window identical yields no signal (so a constant-price stream never
\* yields a signal).
ConstantWindowNeverSignals ==
    (/\ mr_call # <<>>
     /\ Len(mr_seen[mr_call[1].tick.symbol]) >= mr_strategy.window_size
     /\ \A k \in DOMAIN WindowOf(mr_call[1].tick.symbol) :
           WindowOf(mr_call[1].tick.symbol)[k] = mr_call[1].tick.price)
        => mr_call[1].result = <<>>

\* The mean of a window: the sum of its prices over its length.
WindowMean(w) == F64Div(F64Sum(w), F64FromInt(Len(w)))

\* The population standard deviation of a window: the square root of the sum
\* of squared deviations from the mean over the window length.
WindowStdDev(w) ==
    LET dev(k) == F64Sub(w[k], WindowMean(w))
    IN  F64Sqrt(F64Div(F64Sum([k \in DOMAIN w |-> F64Mul(dev(k), dev(k))]),
                       F64FromInt(Len(w))))

\* Standard deviation and z-score of the newest price, per non-empty window.
WindowStats ==
    [w \in Windows \ {<<>>} |->
        [std_dev |-> WindowStdDev(w),
         z |-> F64Div(F64Sub(w[Len(w)], WindowMean(w)), WindowStdDev(w))]]

\* The last process_tick found its window full with a standard deviation > 0.
FullWindowCall ==
    /\ mr_call # <<>>
    /\ mr_strategy.window_size >= 1
    /\ Len(mr_seen[mr_call[1].tick.symbol]) >= mr_strategy.window_size
    /\ F64Lt(F64Zero, WindowStats[WindowOf(mr_call[1].tick.symbol)].std_dev)

\* The decision of C21 for the last process_tick: Sell iff z > threshold, Buy
\* iff z < -threshold, none otherwise, and the fields of an emitted signal.
ZScoreDecision ==
    LET c      == mr_call[1]
        result == c.result
        z      == WindowStats[WindowOf(c.tick.symbol)].z
        t      == mr_strategy.std_dev_threshold
        Is(side) == result # <<>> /\ result[1].side = side
    IN  /\ Is("Sell") <=> F64Lt(t, z)
        /\ Is("Buy") <=> F64Lt(z, F64Neg(t))
        /\ result # <<>> =>
              /\ result[1].side \in {"Buy", "Sell"}
              /\ result[1].symbol = c.tick.symbol
              /\ result[1].price = c.tick.price
              /\ result[1].quantity = mr_strategy.order_size
              /\ result[1].signal_type = "MeanReversion"

\* C21 as stated: with a full window and standard deviation > 0 the decision
\* is Sell iff z > threshold, Buy iff z < -threshold and none otherwise, z
\* being (price - mean) / population standard deviation of the window.
ZScoreDecisionAnyThreshold == FullWindowCall => ZScoreDecision

\* C21, amended: the same for a strategy whose std_dev_threshold is >= 0.
ZScoreDecisionNonNegativeThreshold ==
    (FullWindowCall /\ F64Le(F64Zero, mr_strategy.std_dev_threshold)) => ZScoreDecision

SellOnHighOutlier ==
    /\ FullWindowCall
    /\ F64Le(F64Zero, mr_strategy.std_dev_threshold)
    /\ mr_strategy.window_size = 3
    /\ mr_call[1].result # <<>>
    /\ mr_call[1].result[1].side = "Sell"

\* C22: process_tick returns a signal for every tick, of type MarketMaking,
\* with the tick's symbol and the configured order size; last_prices holds
\* the latest price of every symbol seen and nothing for unseen symbols.
AlwaysQuotesAndTracksLastPrice ==
    /\ mm_call # <<>> =>
          /\ Len(mm_call[1].result) = 1
          /\ mm_call[1].result[1].signal_type = "MarketMaking"
          /\ mm_call[1].result[1].symbol = mm_call[1].tick.symbol
          /\ mm_call[1].result[1].quantity = mm_strategy.order_size
    /\ DOMAIN mm_strategy.last_prices = DOMAIN mm_latest
    /\ \A s \in DOMAIN mm_latest : mm_strategy.last_prices[s] = mm_latest[s]

LastPriceOverwritten ==
    /\ mm_seen = 2
    /\ DOMAIN mm_latest = {"BTC/USD"}
    /\ mm_call[1].tick.price = F64FromInt(2)
    /\ mm_strategy.last_prices["BTC/USD"] = F64FromInt(2)

\* C23: the quote price is tick.price - half_spread with half_spread =
\* tick.price * (spread_bps / 10000) / 2.
QuoteAtHalfTheSpread ==
    mm_call # <<>> =>
        mm_call[1].result[1].price =
            F64Sub(mm_call[1].tick.price,
                   F64Div(F64Mul(mm_call[1].tick.price,
                                 F64Div(mm_strategy.spread_bps, F64FromInt(10000))),
                          F64FromInt(2)))

\* The Orders the order channel accepted, in try_send order.
AcceptedOrders == SelectSeq(engine_offers, LAMBDA o : o.result = "Ok")

\* C24: the items yielded by tick_rx.iter() followed by those still buffered
\* are the ticks sent, in order (each dequeued once); process_tick has
\* returned for all dequeued items but the one in hand, in the same order;
\* and the Orders consumed followed by those buffered are the accepted
\* Orders, whose triggering ticks are in increasing stream order.
EngineProcessesInArrivalOrder ==
    /\ engine_dequeued \o engine_tick_chan = engine_generated
    /\ engine_processed \o engine_current = engine_dequeued
    /\ Len(engine_current) <= 1
    /\ engine_consumed \o engine_order_chan =
          [k \in DOMAIN AcceptedOrders |-> AcceptedOrders[k].order]
    /\ \A j, k \in DOMAIN engine_offers :
          j < k => engine_offers[j].trigger < engine_offers[k].trigger
    /\ \A k \in DOMAIN engine_offers :
          /\ engine_offers[k].trigger \in DOMAIN engine_processed
          /\ engine_offers[k].order.symbol =
                engine_generated[engine_offers[k].trigger].tick.symbol
          /\ engine_offers[k].order.price =
                engine_generated[engine_offers[k].trigger].tick.price

TwoOrdersInTickOrder ==
    /\ Len(engine_consumed) = 2
    /\ engine_consumed[1].side # engine_consumed[2].side
    /\ Len(engine_processed) = MaxTicks

\* The file holds exactly the lines of the ticks the open recorder recorded.
LogOfRecorder ==
    /\ recorder # <<>>
    /\ ~log_file.tail
    /\ log_file.lines = [i \in DOMAIN recorded |-> to_string(recorded[i])]

\* Every line of the file is a tick, and nothing follows the last line.
WellFormedLog ==
    /\ log_file.exists
    /\ ~log_file.tail
    /\ \A i \in DOMAIN log_file.lines : from_str(log_file.lines[i]) # <<>>

LogTicks == [i \in DOMAIN log_file.lines |-> from_str(log_file.lines[i])[1]]

\* C25: when the file holds the N ticks of a recorder, the ticks a replayer
\* has returned are the first recorded ticks, in order and field for field,
\* its tick_count is their number, and a next_tick returns no error and
\* returns None exactly when all N lines had been read.
RecordThenReplayRoundTrip ==
    (LogOfRecorder /\ replayer # <<>>) =>
        /\ Len(replayed) <= Len(recorded)
        /\ replayed = SubSeq(recorded, 1, Len(replayed))
        /\ replayer[1].tick_count = Len(replayed)
        /\ replayer[1].pos = Len(replayed)
        /\ replay_call[1].op = "next_tick" =>
              /\ replay_call[1].kind # "Err"
              /\ replay_call[1].kind = "None" <=> replay_call[1].ended

\* C26: from_file over a well-formed log of N ticks returns total_ticks = N,
\* the timestamps of the first and last tick, duration_ms = (end - start) /
\* 1,000,000 and the distinct symbols without duplicates; all are 0 or
\* empty for an empty file.
StatsOfWellFormedLog ==
    (replay_call # <<>> /\ replay_call[1].op = "from_file" /\ WellFormedLog) =>
        LET stats == replay_call[1].stats
            N     == Len(log_file.lines)
        IN  /\ replay_call[1].kind = "Ok"
            /\ stats.total_ticks = N
            /\ stats.start_timestamp = IF N = 0 THEN 0 ELSE LogTicks[1].timestamp_nanos
            /\ stats.end_timestamp = IF N = 0 THEN 0 ELSE LogTicks[N].timestamp_nanos
            /\ stats.duration_ms * 1000000 <= stats.end_timestamp - stats.start_timestamp
            /\ stats.end_timestamp - stats.start_timestamp < (stats.duration_ms + 1) * 1000000
            /\ stats.symbols = {LogTicks[i].symbol : i \in 1..N}
            /\ Len(replay_call[1].symbols) = Cardinality(stats.symbols)
            /\ {replay_call[1].symbols[i] : i \in DOMAIN replay_call[1].symbols}
                  = stats.symbols

\* C27: from_file over a well-formed log whose last timestamp is below its
\* first completes, and its duration_ms is no more than the distance of the
\* two timestamps in milliseconds.
StatsDurationNeverUnderflows ==
    (/\ replay_call # <<>>
     /\ replay_call[1].op = "from_file"
     /\ WellFormedLog
     /\ log_file.lines # <<>>
     /\ LogTicks[Len(log_file.lines)].timestamp_nanos < LogTicks[1].timestamp_nanos) =>
        /\ replay_call[1].kind = "Ok"
        /\ replay_call[1].stats.duration_ms * 1000000
              <= LogTicks[1].timestamp_nanos
                 - LogTicks[Len(log_file.lines)].timestamp_nanos

\* The line (or unterminated tail) a next_tick that did not find the end of
\* the file has read is no tick.
ReadMalformed ==
    \/ replayer[1].pos > Len(log_file.lines)
    \/ from_str(log_file.lines[replayer[1].pos]) = <<>>

\* C28: next_tick returns an error exactly when the line it read is
\* malformed or blank, and then tick_count is as before the call; from_file
\* returns an error and no statistics exactly when the file has such a line,
\* wherever it is.
MalformedLineIsError ==
    /\ (replay_call # <<>> /\ replay_call[1].op = "next_tick") =>
          /\ replay_call[1].kind = "None" <=> replay_call[1].ended
          /\ ~replay_call[1].ended =>
                /\ replay_call[1].kind = "Err" <=> ReadMalformed
                /\ replay_call[1].kind = "Err" =>
                      replayer[1].tick_count = replay_call[1].count
    /\ (replay_call # <<>> /\ replay_call[1].op = "from_file" /\ log_file.exists) =>
          /\ replay_call[1].kind = "Err" <=> ~WellFormedLog
          /\ replay_call[1].kind = "Err" => replay_call[1].stats = NoStats

MalformedLineBetweenTicks ==
    /\ replay_call # <<>>
    /\ replay_call[1].op = "from_file"
    /\ replay_call[1].kind = "Err"
    /\ Len(log_file.lines) = 3
    /\ from_str(log_file.lines[1]) # <<>>
    /\ log_file.lines[2].kind = "blank"
    /\ from_str(log_file.lines[3]) # <<>>

\* C29: the recorder's tick_count is the number of record_tick calls that
\* returned Ok since it was created; a successful call adds one to it and
\* one line to the file, a failed call leaves both; the replayer's
\* tick_count is the number of ticks it returned.
TickCountsAreExact ==
    /\ recorder # <<>> => recorder[1].tick_count = Len(recorded)
    /\ replayer # <<>> => replayer[1].tick_count = Len(replayed)
    /\ (replay_call # <<>> /\ replay_call[1].op = "record_tick") =>
          IF replay_call[1].kind = "Ok"
          THEN /\ recorder[1].tick_count = replay_call[1].count + 1
               /\ Len(log_file.lines) = replay_call[1].lines + 1
          ELSE /\ recorder[1].tick_count = replay_call[1].count
               /\ Len(log_file.lines) = replay_call[1].lines

FailedRecordAfterSuccess ==
    /\ replay_call # <<>>
    /\ replay_call[1].op = "record_tick"
    /\ replay_call[1].kind = "Err"
    /\ recorder[1].tick_count = 1
    /\ replayer # <<>>
    /\ replayer[1].tick_count = 1

\* C30: every line completed in the file is still in it, in the order in
\* which the lines were written, whatever recorders were created since.
LogIsAppendOnly == log_file.lines = log_written

\* C31: a frame has length = Len(payload); a frame made by new from a
\* Message m has the serialized m as payload, to_bytes gives the four
\* big-endian bytes of the length followed by the payload (4 + length
\* bytes), and parse_message returns m.
FramingRoundTrips ==
    frame # <<>> =>
        /\ frame[1].length = Len(frame[1].payload)
        /\ frame_call[1].message # <<>> =>
              /\ frame[1].payload = Message_serialize(frame_call[1].message[1])
              /\ frame_call[1].op = "to_bytes" =>
                    /\ Len(frame_call[1].bytes) = 4 + frame[1].length
                    /\ SubSeq(frame_call[1].bytes, 1, 4) = <<0, 0, 0, Len(frame[1].payload)>>
                    /\ SubSeq(frame_call[1].bytes, 5, Len(frame_call[1].bytes))
                          = frame[1].payload
              /\ frame_call[1].op = "parse_message" =>
                    frame_call[1].parsed = frame_call[1].message

\* The state of the strategies and consumers of the two processes.
StrategyState == {"se.strategy", "se.counter", "fh.handler"}

UpdateTouchesOnlyItsSymbol ==
    [][\E tick \in MarketTick :
          /\ tick.symbol \in DOMAIN last_tick'
          /\ last_tick'[tick.symbol] = tick
          /\ \A o \in DOMAIN books \ {tick.symbol} :
                /\ o \in DOMAIN books'
                /\ books'[o].bids = books[o].bids
                /\ books'[o].asks = books[o].asks
                /\ books'[o].timestamp_nanos = books[o].timestamp_nanos
                /\ books'[o] = books[o]]_<<books, last_tick>>

\* C33 witness: ticks of the two symbols were interleaved and each book
\* carries the levels and timestamp of its own tick, which differ.
InterleavedBooksDiffer ==
    /\ DOMAIN books = {"BTC/USD", "ETH/USD"}
    /\ books["BTC/USD"].timestamp_nanos # books["ETH/USD"].timestamp_nanos
    /\ books["BTC/USD"].bids # books["ETH/USD"].bids
    /\ books["BTC/USD"].bids # <<>>

\* The last process_tick found at least window_size prices of its symbol.
WindowFilledCall ==
    /\ mr_call # <<>>
    /\ Len(mr_seen[mr_call[1].tick.symbol]) >= mr_strategy.window_size

\* The bound sqrt(window_size - 1) of the z-score of a member of a window.
ZScoreBound == F64Sqrt(F64FromInt(mr_strategy.window_size - 1))

\* C34 as claimed: on a full window of at least one price the current price
\* is the newest price of the window, its z-score, where it is a number, is
\* at most sqrt(window_size - 1) in absolute value, and a strategy whose
\* threshold is at least that bound, or whose window_size is at most 1,
\* returns no signal.
ZScoreBoundedByWindowSize ==
    WindowFilledCall =>
        LET w == WindowOf(mr_call[1].tick.symbol)
        IN  /\ mr_strategy.window_size >= 1 => w[Len(w)] = mr_call[1].tick.price
            /\ (mr_strategy.window_size >= 2 /\ ~IsNaN(WindowStats[w].z))
                  => F64Le(F64Abs(WindowStats[w].z), ZScoreBound)
            /\ (mr_strategy.window_size <= 1
                 \/ F64Le(ZScoreBound, mr_strategy.std_dev_threshold))
                  => mr_call[1].result = <<>>

\* C34 amended: on a full window of at least one price the current price is
\* the newest price of the window, and a strategy whose window_size is at
\* most 1 never returns a signal.
DegenerateWindowNeverSignals ==
    mr_call # <<>> =>
        /\ (WindowFilledCall /\ mr_strategy.window_size >= 1) =>
              LET w == WindowOf(mr_call[1].tick.symbol)
              IN  w # <<>> /\ w[Len(w)] = mr_call[1].tick.price
        /\ mr_strategy.window_size <= 1 => mr_call[1].result = <<>>

\* C34 witness: a strategy of window_size 1 and a negative threshold saw two
\* different prices of BTC/USD, holds the second and returned no signal.
SingletonWindowStaysSilent ==
    /\ mr_strategy.window_size = 1
    /\ F64Lt(mr_strategy.std_dev_threshold, F64Zero)
    /\ Len(mr_seen["BTC/USD"]) = 2
    /\ mr_seen["BTC/USD"][1] # mr_seen["BTC/USD"][2]
    /\ mr_call[1].tick.symbol = "BTC/USD"
    /\ WindowOf("BTC/USD") = <<mr_seen["BTC/USD"][2]>>
    /\ mr_call[1].result = <<>>

\* The signals a ThresholdStrategy returns for a sequence of enriched ticks,
\* one process_tick after the other on the same strategy.
RECURSIVE LibrarySignals(_, _)
LibrarySignals(strategy, enriched) ==
    IF enriched = <<>> THEN <<>>
    ELSE LET done == ThresholdStrategy_process_tick(strategy, enriched[1].tick,
                                                    enriched[1].seq)
         IN  <<done.signal>> \o LibrarySignals(done.self, Tail(enriched))

\* The ThresholdStrategy with SimpleStrategy's bands and order size 1.0 on the
\* ticks the engine has processed.
LibraryOnProcessed ==
    LibrarySignals(ThresholdStrategy_new(SimpleStrategy_thresholds, F64FromInt(1)),
                   engine_processed)

\* C35: SimpleStrategy generates a signal for a tick exactly when the
\* ThresholdStrategy with the same bands and order size 1.0 returns one for
\* it in the same tick sequence, once per tick and with the same side,
\* symbol, price and quantity; signals-generated counts the generated
\* signals and orders-sent those whose try_send succeeded, so orders-sent <=
\* signals-generated; an order offered to a full channel is dropped and the
\* tick counts as processed.
EngineMatchesThresholdStrategy ==
    /\ \A k \in DOMAIN engine_processed :
          LET library == LibraryOnProcessed[k]
              made    == {j \in DOMAIN engine_offers :
                             engine_offers[j].trigger = engine_processed[k].seq}
          IN  /\ (library # <<>>) <=> (made # {})
              /\ Cardinality(made) <= 1
              /\ \A j \in made :
                    /\ engine_offers[j].order.side = library[1].side
                    /\ engine_offers[j].order.symbol = library[1].symbol
                    /\ engine_offers[j].order.price = library[1].price
                    /\ engine_offers[j].order.quantity = library[1].quantity
    /\ engine_counters["strategy_signals_generated_total"] = Len(engine_offers)
    /\ engine_counters["strategy_orders_sent_total"] =
          Cardinality({j \in DOMAIN engine_offers : engine_offers[j].result = "Ok"})
    /\ engine_counters["strategy_orders_sent_total"]
          <= engine_counters["strategy_signals_generated_total"]
    /\ \A j \in DOMAIN engine_offers :
          /\ engine_offers[j].result \in {"Ok", "Full"}
          /\ \E k \in DOMAIN engine_processed :
                engine_processed[k].seq = engine_offers[j].trigger
          /\ engine_offers[j].result = "Full" =>
                \A i \in DOMAIN engine_order_chan :
                    engine_order_chan[i] # engine_offers[j].order
                    \/ \E h \in DOMAIN engine_offers :
                          /\ h # j
                          /\ engine_offers[h].result = "Ok"
                          /\ engine_offers[h].order = engine_offers[j].order

\* C35 witness: three ticks gave three signals; the second order met a full
\* channel and was dropped, the strategy went on and the third, of the
\* other side, was accepted.
DroppedOrderThenAccepted ==
    /\ Len(engine_offers) = 3
    /\ engine_offers[1].result = "Ok"
    /\ engine_offers[2].result = "Full"
    /\ engine_offers[3].result = "Ok"
    /\ engine_offers[1].order.side # engine_offers[3].order.side
    /\ engine_counters["strategy_signals_generated_total"] = 3
    /\ engine_counters["strategy_orders_sent_total"] = 2
    /\ LibraryOnProcessed[2] # <<>>

====
